---- MODULE Spec2Model ----
(***************************************************************************)
(* Lightshot gallery downloader: the download-orchestration pipeline.      *)
(*                                                                         *)
(*   src/src/shared/throttler.ts          createThrottler (the limiter)    *)
(*   src/src/background/index.ts          the per-port start/cancel logic  *)
(*   src/src/background/downloadService.ts DownloadService.run and helpers *)
(*   src/src/domain/lightshotClient.ts    getAllScreens (the collector)    *)
(*                                                                         *)
(* JavaScript runs every handler to completion, with all the promise       *)
(* continuations it makes ready, before the next event is delivered.  One  *)
(* action of this module is one such event: a message on the port, a       *)
(* network response, a timer, a callback of the downloads API.             *)
(***************************************************************************)
EXTENDS Integers, Sequences, FiniteSets, TLC

\* ---------------------------------------------------------------- bounds
\* Largest capacity and number of submitted units of the limiter on its own.
MaxCap == 3
MaxUnits == 4
\* Largest number of screenshots of a run (pre-fetched or collected).
MaxItems == 2
\* Largest number of start requests refused during one run.
MaxRefused == 1

\* ------------------------------------------------------ program constants
DEFAULT_CONCURRENCY == 4
DEFAULT_RETRY_ATTEMPTS == 3
DEFAULT_RETRY_BASE_DELAY_MS == 500
DEFAULT_SEQUENTIAL_THROTTLE_MS == 150
MAX_THROTTLE_MS == 5000
MAX_CONCURRENCY == 10
LARGE_GALLERY_THRESHOLD == 800
MIN_SEQUENTIAL_THROTTLE_MS == 150

\* The connections (ports) of the background worker.
Ports == {"p1", "p2"}

VARIABLES
  limState,   \* "none" | "threw" | "ready": the outcome of createThrottler(capArg)
  capArg,     \* the maxConcurrency argument given to createThrottler
  lim,        \* the closure state of the limiter: activeCount, queue (+ history)
  unit,       \* unit id -> "queued" | "running" | "resolved" | "rejected" |
              \* "orphaned": the unit's handle (the promise enqueue returned);
              \* an orphaned handle is pending although its task has ended
  taskResult, \* unit id -> how the unit's task function behaves and has
              \* ended: "none" (returns a promise, still pending),
              \* "fulfilled", "rejected", "throws" (will throw when called),
              \* "threw"
  port,       \* per connection: the closure of the onConnect listener and
              \* the state of the run started on it (see IdlePort)
  wait,       \* one cancellation signal and the delay() promises made on it,
              \* for delay taken on its own (see NoWaits)
  past,       \* history, per connection: how the run before the current one
              \* ended and what has arrived since (see NoPast)
  cs          \* the content script: metadataController, activePort,
              \* isDownloading and the download attempts (see IdleContent)

\* What the actions of a port leave alone.
limVars == <<limState, capArg, lim, unit, taskResult, wait, past, cs>>

vars == <<limState, capArg, lim, unit, taskResult, port, wait, past, cs>>

Min(a, b) == IF a <= b THEN a ELSE b
Max(a, b) == IF a >= b THEN a ELSE b

\* ------------------------------------------------------- throttler.ts
\* The limiter's closure: activeCount and queue are the code's two
\* variables, maxConcurrency its parameter.  startLog is history: the
\* units in the order in which next() called their run().
newThrottler(maxConcurrency) ==
  [maxConcurrency |-> maxConcurrency, activeCount |-> 0, queue |-> <<>>,
   startLog |-> <<>>]

\* A number: NaN stands for every value that is not finite (NaN, an
\* infinity); a finite number is given in tenths, so that it may have a
\* fractional part: Num(25) is 2.5.
NaN == [finite |-> FALSE, tenths |-> 0]
Num(tenths) == [finite |-> TRUE, tenths |-> tenths]
floor(tenths) == tenths \div 10

\* Number.isInteger
isInteger(value) == value.finite /\ value.tenths % 10 = 0

\* Faulty variant of validCapacity: the test of Number.isInteger is missing
\* (NaN < 1 is false).
validCapacityAnyNumber(value) == ~value.finite \/ value.tenths >= 10

\* throttler.ts:4 -- the argument check of createThrottler.
validCapacity(value) == isInteger(value) /\ ~(value.tenths < 10)

\* Faulty variant of next(): the test of line 12 is missing.
nextNoCapacityCheck(t) ==
  IF t.queue = <<>> THEN t
  ELSE [t EXCEPT !.activeCount = @ + 1,
                 !.queue = Tail(@),
                 !.startLog = Append(@, Head(t.queue))]

\* Faulty variant of next(): pop() in place of the shift() of line 16.
nextTakesNewest(t) ==
  IF t.activeCount >= t.maxConcurrency THEN t
  ELSE IF t.queue = <<>> THEN t
  ELSE [t EXCEPT !.activeCount = @ + 1,
                 !.queue = SubSeq(@, 1, Len(@) - 1),
                 !.startLog = Append(@, t.queue[Len(t.queue)])]

\* throttler.ts:11-23 -- next(): start the head of the queue if a slot is free.
next(t) ==
  IF t.activeCount >= t.maxConcurrency THEN t
  ELSE IF t.queue = <<>> THEN t
  ELSE [t EXCEPT !.activeCount = @ + 1,
                 !.queue = Tail(@),
                 !.startLog = Append(@, Head(t.queue))]

\* throttler.ts:37-38 -- enqueue(): queue.push(run); next().
enqueue(t, u) == next([t EXCEPT !.queue = Append(@, u)])

\* Faulty variant of the finally of run(): the next() of line 33 is missing.
releaseNoNext(t) == [t EXCEPT !.activeCount = @ - 1]

\* throttler.ts:31-34 -- the finally of run(): activeCount -= 1; next().
release(t) == next([t EXCEPT !.activeCount = @ - 1])

\* throttler.ts:28-30 -- taskFn().then(resolve).catch(reject): the handle
\* of a unit after its task has ended.
settle(result) == IF result = "fulfilled" THEN "resolved" ELSE "rejected"

Range(s) == {s[i] : i \in 1..Len(s)}

\* ------------------------------------------------------------ index.ts
\* A number received in a message is a NaN or a Num(tenths), the result of
\* Number(): Math.floor has something to do on Num(25).

\* The screens field of a message: absent, or a list of n screenshots.
NoScreens == [given |-> FALSE, n |-> 0]
Screens(n) == [given |-> TRUE, n |-> n]

\* A value as it arrives in a message field, before any conversion:
\* undefined (the field is absent), null, a boolean, a number (finite, in
\* tenths, or NaN or an infinity), or a string (empty, a decimal numeral, in
\* tenths, or some other text).
Raw(kind, tenths) == [kind |-> kind, tenths |-> tenths]

\* index.ts:95 and 104 -- Number(value), the ToNumber conversion of the
\* language: undefined and text that is no numeral give NaN; null, false
\* and the empty string give 0; true gives 1; a numeral gives its value.
\* NaN stands for every result that is not finite.
Number(value) ==
  CASE value.kind \in {"undefined", "NaN", "Infinity", "text"} -> NaN
    [] value.kind \in {"null", "false", "empty string"} -> Num(0)
    [] value.kind = "true" -> Num(10)
    [] value.kind \in {"number", "numeric string"} -> Num(value.tenths)

\* index.ts:38 -- Boolean(value): the falsy values are undefined, null,
\* false, 0, NaN and the empty string.
Boolean(value) ==
  ~ \/ value.kind \in {"undefined", "null", "false", "NaN", "empty string"}
    \/ value.kind = "number" /\ value.tenths = 0

\* Faulty variant of normalizeConcurrency: the floor is taken, the clamp of
\* line 100 is missing.
normalizeConcurrencyNoClamp(value) ==
  IF ~value.finite THEN DEFAULT_CONCURRENCY
  ELSE floor(value.tenths)

\* index.ts:94-101, on the result of Number(value)
normalizeConcurrency(value) ==
  IF ~value.finite THEN DEFAULT_CONCURRENCY
  ELSE Min(MAX_CONCURRENCY, Max(1, floor(value.tenths)))

\* index.ts:103-110
normalizeThrottle(value) ==
  IF ~value.finite \/ value.tenths < 0 THEN 0
  ELSE Min(floor(value.tenths), MAX_THROTTLE_MS)

\* index.ts:38-42 -- the options startDownload derives from the message.
runOptions(m) ==
  LET isSequential == m.sequential
      normalizedConcurrency == normalizeConcurrency(m.concurrency)
      concurrency == IF isSequential THEN 1 ELSE normalizedConcurrency
      throttleMs == normalizeThrottle(m.throttleMs)
      throttleDelayMs == IF concurrency = 1
                           THEN Max(throttleMs, DEFAULT_SEQUENTIAL_THROTTLE_MS)
                           ELSE throttleMs
  IN [concurrency |-> concurrency,
      retryAttempts |-> DEFAULT_RETRY_ATTEMPTS,
      retryBaseDelayMs |-> DEFAULT_RETRY_BASE_DELAY_MS,
      throttleDelayMs |-> throttleDelayMs,
      screens |-> m.screens]

\* ---------------------------------------------------- downloadService.ts
\* The messages posted on the port (downloadService.ts:15-66).
StatusPayload(message) == [type |-> "status", message |-> message]
LogPayload(level, message) ==
  [type |-> "log", level |-> level, message |-> message]
StartPayload(total, concurrency) ==
  [type |-> "start", total |-> total, concurrency |-> concurrency]
ProgressPayload(completed, total, currentId, succeeded, failed) ==
  [type |-> "progress", completed |-> completed, total |-> total,
   currentId |-> currentId, succeeded |-> succeeded, failed |-> failed]
\* downloadService.ts:95 -- the done of an empty gallery has two fields only.
EmptyDonePayload == [type |-> "done", total |-> 0, failed |-> 0]
DonePayload(total, processed, succeeded, failed) ==
  [type |-> "done", total |-> total, processed |-> processed,
   succeeded |-> succeeded, failed |-> failed]
ErrorPayload(message) == [type |-> "error", message |-> message]
CancelledPayload == [type |-> "cancelled"]
\* index.ts:34
AlreadyRunningPayload ==
  [type |-> "error", message |-> "A download is already running."]

TerminalTypes == {"done", "error", "cancelled"}

\* One screenshot of a run.  st is the position of its task:
\*   "queued"   waiting in the limiter        "fetch"    awaiting boundFetch
\*   "body"     awaiting arrayBuffer()        "backoff"  awaiting the retry delay
\*   "throttle" awaiting the throttle delay   "ok" / "failed"  task resolved
\*   "aborted"  task rejected
\* attempt is the loop variable of downloadWithRetry; fetches counts the
\* calls of boundFetch for the item, delayMs is the pending delay's length.
QueuedItem == [st |-> "queued", attempt |-> 0, fetches |-> 0, delayMs |-> 0]

InFlight == {"fetch", "body", "backoff", "throttle"}
Settled == {"ok", "failed", "aborted"}

\* The closure of the onConnect listener (controller, activeTask), the
\* AbortSignal handed to the run (signalAborted), and the locals of run,
\* getAllScreens and downloadScreens.  pc is the await the run is at:
\*   "idle" (no run), "collecting", "downloading", "packaging", "sink".
\* History: events holds the messages the run started last has posted on
\* the port, in order; replies holds the messages startDownload itself has
\* posted since, answering the requests it refused (index.ts:34);
\* clientGone tells that the content script has disconnected the port on
\* reading such an answer;
\* generated and sinkCalls count the archives generated and handed over.
IdlePort ==
  [controller |-> "null", activeTask |-> FALSE, signalAborted |-> FALSE,
   pc |-> "idle", opts |-> runOptions([concurrency |-> NaN, sequential |-> FALSE,
                                        throttleMs |-> NaN, screens |-> NoScreens]),
   cursor |-> "0", allScreens |-> 0,
   total |-> 0, concurrency |-> 0, throttleDelayMs |-> 0,
   throttler |-> newThrottler(0), item |-> <<>>,
   processed |-> 0, succeeded |-> 0, failed |-> 0,
   zip |-> {}, generated |-> 0, sinkCalls |-> 0,
   events |-> <<>>, replies |-> <<>>, clientGone |-> FALSE]

\* History of a connection: terminal is the type of the terminal event of
\* the run before the current one ("none": there was none); idleCancel
\* tells that a cancel arrived between the end of that run and the start of
\* the current one; pending, that one has arrived since the connection is
\* idle.
NoPast == [terminal |-> "none", idleCancel |-> FALSE, pending |-> FALSE]

\* downloadService.ts:80-82
send(s, payload) == [s EXCEPT !.events = Append(@, payload)]

\* index.ts:27-30
cleanup(s) == [s EXCEPT !.controller = "null", !.activeTask = FALSE]

\* index.ts:56-66 -- the promise of run() resolved: the catch is skipped
\* and the finally cleans up.
runReturned(s) == cleanup([s EXCEPT !.pc = "idle"])

\* Faulty variant of the catch of run(): the return of line 132 is missing,
\* so a cancelled run goes on to post the error as well.
runCatchFallsThrough(s, message) ==
  IF s.signalAborted
    THEN runReturned(send(send(send(s, StatusPayload("Download cancelled.")),
                               CancelledPayload), ErrorPayload(message)))
    ELSE runReturned(send(s, ErrorPayload(message)))

\* downloadService.ts:128-137 -- the catch of run().
runCatch(s, message) ==
  IF s.signalAborted
    THEN runReturned(send(send(s, StatusPayload("Download cancelled.")), CancelledPayload))
    ELSE runReturned(send(s, ErrorPayload(message)))

\* Faulty variant of beginAttempt: the throwIfAborted of lines 173 and 264
\* is missing.
beginAttemptIgnoringAbort(it, aborted) ==
  [it EXCEPT !.st = "fetch", !.attempt = @ + 1, !.fetches = @ + 1, !.delayMs = 0]

\* downloadService.ts:173 and 262-269 -- a task enters downloadWithRetry, or
\* the retry loop comes round: throwIfAborted, then boundFetch.  Under an
\* aborted signal the task rejects (the catch at 306 rethrows).
beginAttempt(it, aborted) ==
  IF aborted
    THEN [it EXCEPT !.st = "aborted", !.delayMs = 0]
    ELSE [it EXCEPT !.st = "fetch", !.attempt = @ + 1, !.fetches = @ + 1, !.delayMs = 0]

\* Faulty variant of abortTask: delay() has no abort listener, so a pending
\* delay runs to its timer.
abortTaskDelaysUnaware(it) ==
  IF it.st \in {"fetch", "body"} THEN [it EXCEPT !.st = "aborted"] ELSE it

\* What controller.abort() does to a task: a pending fetch or body read
\* rejects with the AbortError (fetch was given the signal, 266-269), a
\* pending delay rejects through onAbort (346-353); the catch at 306-308
\* rethrows, so the task rejects.
abortTask(it) ==
  IF it.st \in InFlight THEN [it EXCEPT !.st = "aborted", !.delayMs = 0] ELSE it

\* Faulty variant of count: a failure does not advance processed.
countFailureNotProcessed(c, success) ==
  IF success
    THEN [c EXCEPT !.succeeded = @ + 1, !.processed = @ + 1]
    ELSE [c EXCEPT !.failed = @ + 1]

\* downloadService.ts:185-191 -- the counters after a task's outcome.
count(c, success) ==
  IF success
    THEN [c EXCEPT !.succeeded = @ + 1, !.processed = @ + 1]
    ELSE [c EXCEPT !.failed = @ + 1, !.processed = @ + 1]

\* throttler.ts:27-35 with downloadService.ts:172-175 -- k tasks have
\* settled: for each, the finally gives the slot back and next() starts the
\* head of the queue, whose task runs up to its first await.  A task that
\* rejects at once (aborted signal) gives its slot back in turn.
RECURSIVE refill(_, _)
refill(s, k) ==
  IF k = 0 THEN s
  ELSE LET t == release(s.throttler)
           startedOne == Len(t.startLog) > Len(s.throttler.startLog)
           u == t.startLog[Len(t.startLog)]
           it == beginAttempt(s.item[u], s.signalAborted)
           s1 == [s EXCEPT !.throttler = t]
       IN IF ~startedOne THEN refill(s1, k - 1)
          ELSE refill([s1 EXCEPT !.item[u] = it],
                      IF it.st = "aborted" THEN k ELSE k - 1)

\* downloadService.ts:203-204 -- after Promise.all.
afterAll(s) ==
  IF s.signalAborted THEN runCatch(s, "AbortError")
  ELSE [send(s, StatusPayload("Packaging ZIP archive...")) EXCEPT !.pc = "packaging"]

\* Faulty variant of afterTasks: a task whose item failed rejects, so the
\* failure of an item ends the run with an error.
afterTasksItemFailureRejects(s) ==
  IF s.pc # "downloading" THEN s
  ELSE IF \E i \in 1..Len(s.item) : s.item[i].st = "aborted"
    THEN runCatch(s, "AbortError")
  ELSE IF \E i \in 1..Len(s.item) : s.item[i].st = "failed"
    THEN runCatch(s, "Failed to fetch")
  ELSE IF \A i \in 1..Len(s.item) : s.item[i].st = "ok"
    THEN afterAll(s)
  ELSE s

\* Faulty variant of afterTasks: the handles are raced, the first task
\* that returns lets the run go on to packaging.
afterTasksFirstReturnPackages(s) ==
  IF s.pc # "downloading" THEN s
  ELSE IF \E i \in 1..Len(s.item) : s.item[i].st = "aborted"
    THEN runCatch(s, "AbortError")
  ELSE IF \E i \in 1..Len(s.item) : s.item[i].st \in {"ok", "failed"}
    THEN afterAll(s)
  ELSE s

\* downloadService.ts:170-201 -- Promise.all over the handles: it rejects
\* with the first handle that rejects and resolves once all have resolved.
\* Tasks go on running after a rejection, nobody awaits them then.
afterTasks(s) ==
  IF s.pc # "downloading" THEN s
  ELSE IF \E i \in 1..Len(s.item) : s.item[i].st = "aborted"
    THEN runCatch(s, "AbortError")
  ELSE IF \A i \in 1..Len(s.item) : s.item[i].st \in {"ok", "failed"}
    THEN afterAll(s)
  ELSE s

\* Faulty variant of completeItem: the progress of an item that failed is
\* not reported.
completeItemSilentFailure(s, i, success) ==
  LET c == count([processed |-> s.processed, succeeded |-> s.succeeded,
                  failed |-> s.failed], success)
      s1 == [s EXCEPT !.item[i].st = IF success THEN "ok" ELSE "failed",
                      !.item[i].delayMs = 0,
                      !.processed = c.processed,
                      !.succeeded = c.succeeded,
                      !.failed = c.failed]
      s2 == IF success
              THEN send(s1, ProgressPayload(s1.processed, s1.total, i,
                                            s1.succeeded, s1.failed))
              ELSE send(s1, LogPayload("warn",
                     [text |-> "Giving up", id |-> i, attempts |-> s.opts.retryAttempts]))
  IN afterTasks(refill(s2, 1))

\* downloadService.ts:185-198 -- downloadWithRetry returned: count, report.
completeItem(s, i, success) ==
  LET c == count([processed |-> s.processed, succeeded |-> s.succeeded,
                  failed |-> s.failed], success)
      s1 == [s EXCEPT !.item[i].st = IF success THEN "ok" ELSE "failed",
                      !.item[i].delayMs = 0,
                      !.processed = c.processed,
                      !.succeeded = c.succeeded,
                      !.failed = c.failed]
      s2 == IF success THEN s1
            ELSE send(s1, LogPayload("warn",
                   [text |-> "Giving up", id |-> i, attempts |-> s.opts.retryAttempts]))
      s3 == send(s2, ProgressPayload(s2.processed, s2.total, i, s2.succeeded, s2.failed))
  IN afterTasks(refill(s3, 1))

\* downloadService.ts:262-269 -- the retry loop comes round for item i.
resume(s, i) ==
  LET it == beginAttempt(s.item[i], s.signalAborted)
      s1 == [s EXCEPT !.item[i] = it]
  IN IF it.st = "aborted" THEN afterTasks(refill(s1, 1)) ELSE s1

\* Faulty variant of backoffTime: the wait does not grow.
backoffTimeConstant(retryBaseDelayMs, attempt) == retryBaseDelayMs

\* downloadService.ts:313
backoffTime(retryBaseDelayMs, attempt) == retryBaseDelayMs * 2 ^ (attempt - 1)

\* downloadService.ts:337-343 -- a delay of no length resolves at once.
delayPending(ms) == ms > 0

\* downloadService.ts:337-365 -- delay(ms, signal) on its own.  The promise
\* it returns: resolved at once for ms <= 0; otherwise pending on a timer,
\* with onAbort registered for the signal's 'abort' event.  The code does not
\* read signal.aborted: the event is dispatched once, when the signal is
\* set, so a listener registered afterwards is never called.
delay(ms, aborted) ==
  [ms |-> ms,
   st |-> IF delayPending(ms) THEN "pending" ELSE "resolved",
   begunAborted |-> aborted]

\* downloadService.ts:346-353 -- onAbort: the timer is cleared and the
\* promise rejects with the cancellation failure.
onAbort(d) == IF d.st = "pending" THEN [d EXCEPT !.st = "rejected"] ELSE d

\* downloadService.ts:355-362 -- the timer's callback: the listener is
\* removed and the promise resolves.
onTimer(d) == IF d.st = "pending" THEN [d EXCEPT !.st = "resolved"] ELSE d

\* A fresh AbortController and no delay made on its signal.
NoWaits == [aborted |-> FALSE, delays |-> <<>>]

\* Faulty variant of onAttemptError: the test of line 312 reads
\* attempt <= retryAttempts, so the last attempt is followed by another.
onAttemptErrorRetriesLast(s, i, nonRetryable) ==
  LET attempt == s.item[i].attempt
      ms == backoffTime(s.opts.retryBaseDelayMs, attempt)
  IN IF s.signalAborted
       THEN afterTasks(refill([s EXCEPT !.item[i].st = "aborted"], 1))
     ELSE IF attempt <= s.opts.retryAttempts /\ ~nonRetryable
       THEN [send(s, LogPayload("warn", [text |-> "Retry", id |-> i, attempt |-> attempt]))
               EXCEPT !.item[i].st = "backoff", !.item[i].delayMs = ms]
     ELSE completeItem(send(s, LogPayload("warn",
                         [text |-> "Final failure", id |-> i, attempt |-> attempt])),
                       i, FALSE)

\* Faulty variant of onAttemptError: the NonRetryableError is retried like
\* any other error.
onAttemptErrorRetriesMissing(s, i, nonRetryable) ==
  LET attempt == s.item[i].attempt
      ms == backoffTime(s.opts.retryBaseDelayMs, attempt)
  IN IF s.signalAborted
       THEN afterTasks(refill([s EXCEPT !.item[i].st = "aborted"], 1))
     ELSE IF attempt < s.opts.retryAttempts
       THEN [send(s, LogPayload("warn", [text |-> "Retry", id |-> i, attempt |-> attempt]))
               EXCEPT !.item[i].st = "backoff", !.item[i].delayMs = ms]
     ELSE completeItem(send(s, LogPayload("warn",
                         [text |-> "Final failure", id |-> i, attempt |-> attempt])),
                       i, FALSE)

\* downloadService.ts:305-329 -- the catch of one attempt of item i.
onAttemptError(s, i, nonRetryable) ==
  LET attempt == s.item[i].attempt
      ms == backoffTime(s.opts.retryBaseDelayMs, attempt)
  IN IF s.signalAborted
       THEN afterTasks(refill([s EXCEPT !.item[i].st = "aborted"], 1))
     ELSE IF attempt < s.opts.retryAttempts /\ ~nonRetryable
       THEN LET s1 == send(s, LogPayload("warn",
                         [text |-> "Retry", id |-> i, attempt |-> attempt]))
            IN IF delayPending(ms)
                 THEN [s1 EXCEPT !.item[i].st = "backoff", !.item[i].delayMs = ms]
                 ELSE resume(s1, i)
     ELSE completeItem(send(s, LogPayload("warn",
                         [text |-> "Final failure", id |-> i, attempt |-> attempt])),
                       i, FALSE)

\* Faulty variant of onBody: lines 300-302 are missing, the task returns as
\* soon as the body is stored.
onBodyNoThrottle(s, i) ==
  completeItem([s EXCEPT !.zip = @ \cup {i}], i, TRUE)

\* downloadService.ts:291-304 -- the body has been read: store it, throttle.
onBody(s, i) ==
  LET s1 == [s EXCEPT !.zip = @ \cup {i}]
  IN IF s.throttleDelayMs > 0 /\ delayPending(s.throttleDelayMs)
       THEN [s1 EXCEPT !.item[i].st = "throttle", !.item[i].delayMs = s.throttleDelayMs]
       ELSE completeItem(s1, i, TRUE)

\* downloadService.ts:172 -- throttler(async () => ...) for screen i: the
\* unit is handed to the limiter; a unit the limiter starts runs to its
\* first await.
enqueueOne(s, i) ==
  LET t == enqueue(s.throttler, i)
      startedOne == Len(t.startLog) > Len(s.throttler.startLog)
      u == t.startLog[Len(t.startLog)]
      s1 == [s EXCEPT !.throttler = t]
  IN IF startedOne
       THEN [s1 EXCEPT !.item[u] = beginAttempt(@, s.signalAborted)]
       ELSE s1

\* downloadService.ts:170-172 -- screens.map: the screens lo..hi are handed
\* to the limiter in list order (the first half, then the second).  The
\* test on the first half always holds; with it TLC computes the first half
\* before it turns to the second, which keeps the evaluation shallow.
RECURSIVE enqueueAll(_, _, _)
enqueueAll(s, lo, hi) ==
  IF lo > hi THEN s
  ELSE IF lo = hi THEN enqueueOne(s, lo)
  ELSE LET mid == (lo + hi) \div 2
           firstHalf == enqueueAll(s, lo, mid)
       IN IF Len(firstHalf.item) = Len(s.item)
            THEN enqueueAll(firstHalf, mid + 1, hi)
            ELSE firstHalf

\* downloadService.ts:151-201 -- downloadScreens up to its first await.
downloadScreens(s) ==
  IF ~validCapacity(Num(10 * s.concurrency))
    THEN runCatch(s, "maxConcurrency must be a positive integer")
  ELSE LET s1 == send([s EXCEPT !.zip = {},
                                !.throttler = newThrottler(s.concurrency),
                                !.processed = 0, !.succeeded = 0, !.failed = 0,
                                !.item = [i \in 1..s.total |-> QueuedItem],
                                !.pc = "downloading"],
                      StatusPayload("Downloading screenshot(s)..."))
           s2 == enqueueAll(s1, 1, s.total)
           k == Cardinality({i \in 1..s.total : s2.item[i].st = "aborted"})
       IN afterTasks(refill(s2, k))

\* chrome.runtime.lastError in the callback of chrome.downloads.download:
\* unset, or an error with a message.
NoLastError == [set |-> FALSE, message |-> ""]
SomeLastError == [set |-> TRUE, message |-> "Download canceled by the user"]

\* downloadService.ts:225-243 -- triggerDownload: the promise it returns,
\* settled by the callback.
triggerDownload(lastError) ==
  IF lastError.set
    THEN [rejected |-> TRUE, message |-> lastError.message]
    ELSE [rejected |-> FALSE, message |-> ""]

\* Faulty variant of afterTriggerDownload: a download that was not accepted
\* is tried again.
afterTriggerDownloadRetries(s, lastError) ==
  LET r == triggerDownload(lastError)
  IN IF ~r.rejected
       THEN runReturned(send(s, DonePayload(s.succeeded, s.processed,
                                            s.succeeded, s.failed)))
       ELSE [s EXCEPT !.sinkCalls = @ + 1]

\* downloadService.ts:209-222 -- downloadScreens after triggerDownload has
\* settled: done, or the error with the message of the rejection; run()
\* returns.
afterTriggerDownload(s, lastError) ==
  LET r == triggerDownload(lastError)
  IN IF ~r.rejected
       THEN runReturned(send(s, DonePayload(s.succeeded, s.processed,
                                            s.succeeded, s.failed)))
       ELSE runReturned(send(s, ErrorPayload(r.message)))

\* Faulty variant of effectiveConfig: the test of line 102 reads
\* length > LARGE_GALLERY_THRESHOLD.
effectiveConfigAboveThreshold(n, concurrency, throttleDelayMs) ==
  IF n > LARGE_GALLERY_THRESHOLD /\ concurrency > 1
    THEN [concurrency |-> 1,
          throttleDelayMs |-> Max(throttleDelayMs, MIN_SEQUENTIAL_THROTTLE_MS),
          downgraded |-> TRUE]
    ELSE [concurrency |-> concurrency, throttleDelayMs |-> throttleDelayMs,
          downgraded |-> FALSE]

\* Faulty variant of effectiveConfig: line 104 is missing, the downgraded
\* run keeps the throttle delay it was given.
effectiveConfigKeepsThrottle(n, concurrency, throttleDelayMs) ==
  IF n >= LARGE_GALLERY_THRESHOLD /\ concurrency > 1
    THEN [concurrency |-> 1, throttleDelayMs |-> throttleDelayMs,
          downgraded |-> TRUE]
    ELSE [concurrency |-> concurrency, throttleDelayMs |-> throttleDelayMs,
          downgraded |-> FALSE]

\* downloadService.ts:99-109 -- the derived configuration.
effectiveConfig(n, concurrency, throttleDelayMs) ==
  IF n >= LARGE_GALLERY_THRESHOLD /\ concurrency > 1
    THEN [concurrency |-> 1,
          throttleDelayMs |-> Max(throttleDelayMs, MIN_SEQUENTIAL_THROTTLE_MS),
          downgraded |-> TRUE]
    ELSE [concurrency |-> concurrency, throttleDelayMs |-> throttleDelayMs,
          downgraded |-> FALSE]

\* Faulty variant of afterResolve: the test of line 93 is missing.
afterResolveNoEmptyCheck(s, n) ==
  LET cfg == effectiveConfig(n, s.opts.concurrency, s.opts.throttleDelayMs)
      s3 == send(s, StartPayload(n, cfg.concurrency))
  IN downloadScreens([s3 EXCEPT !.total = n,
                                !.concurrency = cfg.concurrency,
                                !.throttleDelayMs = cfg.throttleDelayMs])

\* Faulty variant of afterResolve: the start event of line 119 is not
\* posted.
afterResolveNoStart(s, n) ==
  IF n = 0
    THEN runReturned(send(send(s, StatusPayload("No screenshots found in your gallery.")),
                          EmptyDonePayload))
  ELSE LET cfg == effectiveConfig(n, s.opts.concurrency, s.opts.throttleDelayMs)
       IN downloadScreens([s EXCEPT !.total = n,
                                    !.concurrency = cfg.concurrency,
                                    !.throttleDelayMs = cfg.throttleDelayMs])

\* downloadService.ts:93-127 -- run() once the list of n screens is known.
afterResolve(s, n) ==
  IF n = 0
    THEN runReturned(send(send(s, StatusPayload("No screenshots found in your gallery.")),
                          EmptyDonePayload))
  ELSE LET cfg == effectiveConfig(n, s.opts.concurrency, s.opts.throttleDelayMs)
           s1 == IF cfg.downgraded
                   THEN send(s, StatusPayload("Large gallery detected."))
                   ELSE s
           s2 == IF cfg.throttleDelayMs > 0
                   THEN send(s1, LogPayload("info",
                          [text |-> "Throttle delay set", ms |-> cfg.throttleDelayMs]))
                   ELSE s1
           s3 == send(s2, StartPayload(n, cfg.concurrency))
       IN downloadScreens([s3 EXCEPT !.total = n,
                                     !.concurrency = cfg.concurrency,
                                     !.throttleDelayMs = cfg.throttleDelayMs])

\* ----------------------------------------------------- lightshotClient.ts
\* The cursors of the listing; "0" is the beginning, "none" no cursor.
Cursors == {"0", "a", "b"}

\* Faulty variant of fetchPage: a response with success false is an error
\* whatever it holds.
fetchPageFailsOnEmpty(r) ==
  IF ~r.ok THEN [threw |-> TRUE, message |-> "Lightshot API returned status"]
  ELSE IF r.success = "false"
    THEN [threw |-> TRUE, message |-> "Unexpected Lightshot response"]
  ELSE [threw |-> FALSE, screens |-> r.screens, last |-> r.last,
        nextCursor |-> r.nextCursor]

\* lightshotClient.ts:94-148 -- fetchPage on a response: ok is the HTTP
\* status, success the flag ("true", "false" or "absent"), screens the
\* number of items, last the id36 of the last one, nextCursor the
\* continuation cursor found ("none" when there is none).
fetchPage(r) ==
  IF ~r.ok THEN [threw |-> TRUE, message |-> "Lightshot API returned status"]
  ELSE IF r.success = "false" /\ r.screens = 0
    THEN [threw |-> FALSE, screens |-> 0, last |-> "none", nextCursor |-> "none"]
  ELSE IF r.success = "false"
    THEN [threw |-> TRUE, message |-> "Unexpected Lightshot response"]
  ELSE [threw |-> FALSE, screens |-> r.screens, last |-> r.last,
        nextCursor |-> r.nextCursor]

\* A list of screenshots found in a response: n items, the last of them
\* with the id36 last; a field that is missing is Absent.
Absent == [present |-> FALSE, n |-> 0, last |-> "none"]
List(n, last) == [present |-> TRUE, n |-> n, last |-> last]

\* lightshotClient.ts:100-108 -- the chain of ?? that picks the list: the
\* fields of result (screens, then items), then those of result.data, then
\* those of the response itself, then the empty list.  A response of the
\* model gives, for each of the three places, the list the two field names
\* yield there.  A list that is there and empty is taken like any other.
candidateScreens(json) ==
  IF json.result.present THEN json.result
  ELSE IF json.data.present THEN json.data
  ELSE IF json.direct.present THEN json.direct
  ELSE List(0, "none")

\* lightshotClient.ts:135-147 -- the chain of ?? that picks the cursor: the
\* fields of result (next_id36, next_cursor, next_token, next), then those
\* of result.data, then those of the response itself; "none" is undefined.
nextCursor(json) ==
  IF json.resultNext # "none" THEN json.resultNext
  ELSE IF json.dataNext # "none" THEN json.dataNext
  ELSE json.directNext

\* lightshotClient.ts:98-148 -- what fetchPage reads in the response body.
probed(json) ==
  [ok |-> json.ok, success |-> json.success,
   screens |-> candidateScreens(json).n,
   last |-> IF candidateScreens(json).n = 0 THEN "0" ELSE candidateScreens(json).last,
   nextCursor |-> nextCursor(json)]

\* lightshotClient.ts:155-156 -- the head of the loop of getAllScreens: stop
\* with what has been collected under an aborted signal, else ask for a page.
collectLoop(s) ==
  IF s.signalAborted THEN afterResolve(s, s.allScreens)
  ELSE [s EXCEPT !.pc = "collecting"]

\* lightshotClient.ts:156-179 -- one page has arrived.  The length of
\* allScreens is kept up to MaxItems (the loop does not read it).
onPage(s, page) ==
  IF page.threw THEN runCatch(s, page.message)
  ELSE IF page.screens = 0 THEN afterResolve(s, s.allScreens)
  ELSE LET s1 == [s EXCEPT !.allScreens = Min(@ + page.screens, MaxItems)]
       IN IF page.nextCursor = "none"
            THEN IF page.last = s.cursor
                   THEN afterResolve(s1, s1.allScreens)
                   ELSE collectLoop([s1 EXCEPT !.cursor = page.last])
          ELSE IF page.nextCursor = s.cursor
            THEN afterResolve(s1, s1.allScreens)
          ELSE collectLoop([s1 EXCEPT !.cursor = page.nextCursor])

\* Faulty variant of run(): the list that came with the request is not
\* looked at, the metadata are always collected.
runAlwaysCollects(s) ==
  collectLoop([send(s, StatusPayload("Collecting gallery metadata..."))
                 EXCEPT !.cursor = "0", !.allScreens = 0])

\* downloadService.ts:84-91 -- run() up to its first await.
run(s) ==
  IF ~s.opts.screens.given
    THEN collectLoop([send(s, StatusPayload("Collecting gallery metadata..."))
                        EXCEPT !.cursor = "0", !.allScreens = 0])
    ELSE afterResolve(s, s.opts.screens.n)

\* Faulty variant of startDownload: the AbortController is made once for
\* the connection (line 45 is missing), so a run starts with the signal of
\* the run before it.
startDownloadKeepsController(s, m) ==
  IF s.activeTask THEN [s EXCEPT !.replies = Append(@, AlreadyRunningPayload)]
  ELSE run([IdlePort EXCEPT !.controller = "set", !.activeTask = TRUE,
                            !.opts = runOptions(m),
                            !.signalAborted = s.signalAborted])

\* index.ts:32-67
startDownload(s, m) ==
  IF s.activeTask THEN [s EXCEPT !.replies = Append(@, AlreadyRunningPayload)]
  ELSE run([IdlePort EXCEPT !.controller = "set", !.activeTask = TRUE,
                            !.opts = runOptions(m)])

\* Faulty variant of cancelDownload: a page request in flight is not given
\* the signal, so getAllScreens is never rejected; it notices the signal at
\* the test of its loop and returns what it has collected.
cancelDownloadCollectorReturns(s) ==
  IF s.controller = "null" THEN s
  ELSE IF s.signalAborted THEN s
  ELSE LET s1 == [s EXCEPT !.signalAborted = TRUE]
       IN IF s.pc = "collecting" THEN afterResolve(s1, s1.allScreens)
          ELSE LET hit == {i \in 1..Len(s.item) : abortTask(s.item[i]).st # s.item[i].st}
                   s2 == [s1 EXCEPT !.item = [i \in 1..Len(s.item) |-> abortTask(s.item[i])]]
               IN afterTasks(refill(s2, Cardinality(hit)))

\* index.ts:69-74 with what abort() sets off: the page request of the
\* collector rejects, every task in flight rejects, the limiter hands the
\* queued units to their tasks.
cancelDownload(s) ==
  IF s.controller = "null" THEN s
  ELSE IF s.signalAborted THEN s
  ELSE LET s1 == [s EXCEPT !.signalAborted = TRUE]
       IN IF s.pc = "collecting" THEN runCatch(s1, "AbortError")
          ELSE LET hit == {i \in 1..Len(s.item) : abortTask(s.item[i]).st # s.item[i].st}
                   s2 == [s1 EXCEPT !.item = [i \in 1..Len(s.item) |-> abortTask(s.item[i])]]
               IN afterTasks(refill(s2, Cardinality(hit)))

\* ------------------------------------------ part_004: the content script
\* part_004:373-375 -- the three variables of the content script; 0 stands
\* for null, k > 0 for the controller or the port of attempt k.  attempt
\* lists the calls of the onDownloadRequested handler that were not refused:
\* pc is the await the attempt is at, "collecting" (a page request of
\* getAllScreens is pending), "returned" (the handler has returned without
\* a port), "connected" (its port is open, its listeners attached),
\* "closed" (the port is disconnected); aborted is controller.signal.aborted;
\* cursor and allScreens are the locals of getAllScreens.  History: posted
\* counts the 'download' messages the attempt has posted, cancelPosted tells
\* that a 'cancel' was posted on its port, refused counts the requests
\* refused since the last one accepted.
IdleContent ==
  [metadataController |-> 0, activePort |-> 0, isDownloading |-> FALSE,
   attempt |-> <<>>, refused |-> 0]

NewAttempt ==
  [pc |-> "collecting", aborted |-> FALSE, cursor |-> "0", allScreens |-> 0,
   posted |-> 0, cancelPosted |-> FALSE]

\* part_004:557-559
isBusy(c) == c.metadataController # 0 \/ c.activePort # 0

\* part_004:390-405 -- the handler of a download request up to its first
\* await: refused when busy, else a controller is made and getAllScreens
\* asks for the first page.
onDownloadRequested(c) ==
  IF isBusy(c) THEN [c EXCEPT !.refused = @ + 1]
  ELSE [c EXCEPT !.metadataController = Len(c.attempt) + 1,
                 !.isDownloading = TRUE,
                 !.attempt = Append(@, NewAttempt),
                 !.refused = 0]

\* part_004:406-422 -- getAllScreens has thrown in attempt k: the handler
\* reports and returns.
onCollectError(c, k) ==
  [c EXCEPT !.metadataController = IF @ = k THEN 0 ELSE @,
            !.isDownloading = FALSE,
            !.attempt[k].pc = "returned"]

\* part_004:424-538 -- getAllScreens has returned n screenshots in attempt
\* k: none ends the attempt; otherwise a port is opened, the listeners are
\* attached and the 'download' message is posted with the list.
onCollected(c, k, n) ==
  LET c1 == [c EXCEPT !.metadataController = IF @ = k THEN 0 ELSE @]
  IN IF n = 0
       THEN [c1 EXCEPT !.isDownloading = FALSE, !.attempt[k].pc = "returned"]
       ELSE [c1 EXCEPT !.activePort = k,
                       !.attempt[k].pc = "connected",
                       !.attempt[k].posted = @ + 1]

\* lightshotClient.ts:155 -- the head of the loop of getAllScreens in
\* attempt k: under an aborted signal it returns what it has collected,
\* else it asks for a page.
contentCollectLoop(c, k) ==
  IF c.attempt[k].aborted THEN onCollected(c, k, c.attempt[k].allScreens)
  ELSE c

\* lightshotClient.ts:156-179 -- one page has arrived in attempt k.
onMetadataPage(c, k, page) ==
  LET a == c.attempt[k]
      n == Min(a.allScreens + page.screens, MaxItems)
      c1 == [c EXCEPT !.attempt[k].allScreens = n]
  IN IF page.threw THEN onCollectError(c, k)
     ELSE IF page.screens = 0 THEN onCollected(c, k, a.allScreens)
     ELSE IF page.nextCursor = "none"
       THEN IF page.last = a.cursor
              THEN onCollected(c1, k, n)
              ELSE contentCollectLoop([c1 EXCEPT !.attempt[k].cursor = page.last], k)
     ELSE IF page.nextCursor = a.cursor
       THEN onCollected(c1, k, n)
     ELSE contentCollectLoop([c1 EXCEPT !.attempt[k].cursor = page.nextCursor], k)

\* Faulty variant of onCancel: the page request is not given the signal
\* (lightshotClient.ts:91 is missing), so abort() rejects nothing and the
\* collection goes on to the next test of its loop.
onCancelRequestGoesOn(c) ==
  IF c.metadataController # 0
    THEN [c EXCEPT !.attempt[c.metadataController].aborted = TRUE,
                   !.metadataController = 0,
                   !.isDownloading = FALSE]
  ELSE IF c.activePort = 0 \/ ~c.isDownloading THEN c
  ELSE [c EXCEPT !.attempt[c.activePort].cancelPosted = TRUE]

\* part_004:540-555 with what abort() sets off -- the handler of the cancel
\* button.  During the collection the signal is set, which rejects the
\* pending page request (lightshotClient.ts:82-92), and the two variables
\* are cleared; the catch of lines 408-422 then runs.  During a download
\* the 'cancel' message is posted on the port.
onCancel(c) ==
  IF c.metadataController # 0
    THEN LET k == c.metadataController
         IN onCollectError([c EXCEPT !.attempt[k].aborted = TRUE,
                                     !.metadataController = 0,
                                     !.isDownloading = FALSE], k)
  ELSE IF c.activePort = 0 \/ ~c.isDownloading THEN c
  ELSE [c EXCEPT !.attempt[c.activePort].cancelPosted = TRUE]

\* part_004:446-461 -- cleanup of the port of attempt k.
portCleanup(c, k) ==
  IF c.activePort # k THEN c
  ELSE [c EXCEPT !.isDownloading = FALSE, !.activePort = 0,
                 !.attempt[k].pc = "closed"]

\* part_004:463-518 -- a message of the worker on the port of attempt k:
\* the terminal ones clean up, the others change the panel only.
handleMessage(c, k, type) ==
  IF type \in TerminalTypes THEN portCleanup(c, k) ELSE c

\* part_004:521-527 -- the port of attempt k is disconnected at the other
\* end.
onPortDisconnect(c, k) ==
  IF c.activePort = k
    THEN [c EXCEPT !.isDownloading = FALSE, !.activePort = 0,
                   !.attempt[k].pc = "closed"]
    ELSE [c EXCEPT !.attempt[k].pc = "closed"]

\* ------------------------------------------- the limiter on its own
\* A limiter is built with an arbitrary argument; units 1, 2, ... are
\* submitted in that order at arbitrary times and each started unit
\* settles, resolved or rejected, at an arbitrary later time.
InitLimiter ==
  /\ limState = "none"
  /\ capArg = Num(0)
  /\ lim = newThrottler(0)
  /\ unit = <<>>
  /\ taskResult = <<>>
  /\ port = [p \in Ports |-> IdlePort]
  /\ wait = NoWaits
  /\ past = [p \in Ports |-> NoPast]
  /\ cs = IdleContent

\* throttler.ts:3-6 and 42
CreateThrottler(value) ==
  /\ limState = "none"
  /\ capArg' = value
  /\ IF validCapacity(value)
       THEN /\ limState' = "ready"
            /\ lim' = newThrottler(floor(value.tenths))
       ELSE /\ limState' = "threw"
            /\ UNCHANGED lim
  /\ UNCHANGED <<unit, taskResult, port, wait, past, cs>>

\* throttler.ts:25-40 -- enqueue(taskFn) for the next unit; throws tells
\* whether taskFn throws when it is called instead of returning a promise.
\* next() runs inside the executor of the new handle (line 38): if the
\* unit it starts throws at line 28, activeCount has been incremented
\* (line 21) and the exception leaves the executor, which rejects the
\* handle.  (A free slot is found only with an empty queue, so the unit
\* started here is the one submitted.)
Submit(throws) ==
  /\ limState = "ready"
  /\ Len(unit) < MaxUnits
  /\ LET u == Len(unit) + 1
         t == enqueue(lim, u)
         started == u \in Range(t.startLog)
     IN /\ lim' = t
        /\ unit' = Append(unit, IF ~started THEN "queued"
                                ELSE IF throws THEN "rejected" ELSE "running")
        /\ taskResult' = Append(taskResult, IF ~throws THEN "none"
                                            ELSE IF started THEN "threw" ELSE "throws")
  /\ UNCHANGED <<limState, capArg, port, wait, past, cs>>

\* throttler.ts:28-34 -- the task of unit u ends, fulfilled or rejected:
\* resolve or reject of its own handle, then the finally: activeCount -= 1
\* and next().  If the unit h that next() starts throws at line 28, the
\* exception leaves the finally callback: activeCount stays incremented
\* for h, nothing settles the handle of h, and next() is not called again
\* for that slot.
Settle(u, result) ==
  /\ limState = "ready"
  /\ u \in 1..Len(unit)
  /\ unit[u] = "running"
  /\ LET t == release(lim)
         started == Len(t.startLog) > Len(lim.startLog)
         h == t.startLog[Len(t.startLog)]
         hThrows == started /\ taskResult[h] = "throws"
     IN /\ lim' = t
        /\ taskResult' = [v \in 1..Len(unit) |->
                            IF v = u THEN result
                            ELSE IF hThrows /\ v = h THEN "threw"
                            ELSE taskResult[v]]
        /\ unit' = [v \in 1..Len(unit) |->
                      IF v = u THEN settle(result)
                      ELSE IF started /\ v = h
                        THEN IF hThrows THEN "orphaned" ELSE "running"
                      ELSE unit[v]]
  /\ UNCHANGED <<limState, capArg, port, wait, past, cs>>

\* The arguments createThrottler is called with: NaN, a negative number,
\* 0, fractions below and above 1, and the integers 1..MaxCap.
CapacityArgs ==
  {NaN} \cup {Num(t) : t \in {-10, 0, 5, 15}} \cup {Num(10 * n) : n \in 1..MaxCap}

NextLimiter ==
  \/ \E value \in CapacityArgs : CreateThrottler(value)
  \/ \E throws \in BOOLEAN : Submit(throws)
  \/ \E u \in 1..MaxUnits : \E r \in {"fulfilled", "rejected"} : Settle(u, r)

SpecLimiter == InitLimiter /\ [][NextLimiter]_vars

Executing == {u \in 1..Len(unit) : unit[u] = "running"}

\* C1: for every capacity N >= 1 and any number of submitted units, the
\* number of units whose task has started and not yet settled is at most N.
C1_AtMostNExecuting ==
  limState = "ready" => Cardinality(Executing) <= lim.maxConcurrency

\* C1 witness: a limiter at full capacity with more units waiting.
C1_Witness ==
  /\ limState = "ready"
  /\ Cardinality(Executing) = lim.maxConcurrency
  /\ Len(lim.queue) >= 2

\* C10: the limiter starts queued units in submission order: of two units
\* that both had to wait, the one submitted first is started first, and a
\* unit still waiting was submitted after every unit that waited and started.
C10_QueuedStartInSubmissionOrder ==
  limState = "ready" =>
    /\ \A i, j \in 1..Len(lim.startLog) :
         i < j => lim.startLog[i] < lim.startLog[j]
    /\ \A a \in Range(lim.queue) : \A b \in Range(lim.startLog) : b < a

\* C10 witness: two units that both waited in the queue have been started.
C10_Witness ==
  /\ limState = "ready"
  /\ lim.maxConcurrency = 1
  /\ Len(lim.startLog) >= 3
  /\ lim.queue # <<>>

\* C11 as stated: every handle settles with the outcome of its own unit's
\* task, and no unit is failed or blocked by another: a handle is pending
\* exactly while its task has not ended, whatever has become of the other
\* units; a unit waits in the queue only while every slot is held by a
\* task that is still running, so the slot of a unit that failed is free
\* for the next unit at once.
C11_HandleSettlesWithOwnOutcome ==
  limState = "ready" =>
    /\ \A u \in 1..Len(unit) :
         /\ unit[u] = "resolved" <=> taskResult[u] = "fulfilled"
         /\ unit[u] = "rejected" <=> taskResult[u] \in {"rejected", "threw"}
         /\ unit[u] \in {"queued", "running"} <=> taskResult[u] \in {"none", "throws"}
    /\ lim.queue # <<>> => Cardinality(Executing) = lim.maxConcurrency

\* The part of C11 that is about tasks that fail as promises do: as long
\* as no task function has thrown, handles settle with their own task's
\* outcome, and a unit waits only while every slot is held by a running task.
C11_RejectionsDoNotBlock ==
  (limState = "ready" /\ \A u \in 1..Len(unit) : taskResult[u] # "threw") =>
    /\ \A u \in 1..Len(unit) :
         /\ unit[u] = "resolved" <=> taskResult[u] = "fulfilled"
         /\ unit[u] = "rejected" <=> taskResult[u] = "rejected"
    /\ lim.activeCount = Cardinality(Executing)
    /\ lim.queue # <<>> => Cardinality(Executing) = lim.maxConcurrency

\* ------------------------------------------------------------- actions
\* What the environment may send and answer.
Messages ==
  [concurrency : {Num(10), Num(25)}, sequential : BOOLEAN,
   throttleMs : {NaN},
   screens : {NoScreens} \cup {Screens(n) : n \in 0..MaxItems}]

PageResponses ==
  [ok : BOOLEAN, success : {"true", "false", "absent"}, screens : 0..2,
   last : Cursors, nextCursor : Cursors \cup {"none"}]

FetchOutcomes == {"ok", "transient", "missing"}

Init ==
  /\ limState = "none"
  /\ capArg = Num(0)
  /\ lim = newThrottler(0)
  /\ unit = <<>>
  /\ taskResult = <<>>
  /\ port = [p \in Ports |-> IdlePort]
  /\ wait = NoWaits
  /\ past = [p \in Ports |-> NoPast]
  /\ cs = IdleContent

Refused(s) == Len(s.replies)

\* index.ts:76-80 -- a 'download' message arrives on port p, which has no
\* run: the content script opens a port for every download and sends the
\* message once.
StartDownload(p, m) ==
  /\ ~port[p].activeTask
  /\ port' = [port EXCEPT ![p] = startDownload(port[p], m)]
  /\ UNCHANGED limVars

\* index.ts:76-80 and 33-36 -- a 'download' message arrives on a port that
\* is busy with a run (at most MaxRefused of them during one run).
RefusedStart(p, m) ==
  /\ port[p].activeTask
  /\ ~port[p].clientGone
  /\ Refused(port[p]) < MaxRefused
  /\ port' = [port EXCEPT ![p] = startDownload(port[p], m)]
  /\ UNCHANGED limVars

\* part_004:505-508 and 446-461, index.ts:89-91 -- the 'already running'
\* error reaches the content script: handleMessage shows it and calls
\* cleanup, which disconnects the port; the worker's onDisconnect listener
\* calls cancelDownload.
ClientDisconnectsOnError(p) ==
  /\ port[p].replies # <<>>
  /\ ~port[p].clientGone
  /\ port' = [port EXCEPT ![p] = cancelDownload([port[p] EXCEPT !.clientGone = TRUE])]
  /\ UNCHANGED limVars

\* index.ts:81-83 and 89-91 -- a 'cancel' message arrives on port p, or
\* the port is disconnected.
CancelDownload(p) ==
  /\ port' = [port EXCEPT ![p] = cancelDownload(port[p])]
  /\ UNCHANGED limVars

\* lightshotClient.ts:82-98 -- the listing answers the page request.
PageResponse(p, r) ==
  /\ port[p].pc = "collecting"
  /\ port' = [port EXCEPT ![p] = onPage(port[p], fetchPage(r))]
  /\ UNCHANGED limVars

\* downloadService.ts:266-289 -- the fetch of item i answers: a response
\* that is ok, a failure to retry (network error, a status that is not ok),
\* or the 403 whose body carries code 'account_trouble'.
FetchResponse(p, i, o) ==
  /\ i \in 1..Len(port[p].item)
  /\ port[p].item[i].st = "fetch"
  /\ port' = [port EXCEPT ![p] =
       CASE o = "ok" -> [port[p] EXCEPT !.item[i].st = "body"]
         [] o = "transient" -> onAttemptError(port[p], i, FALSE)
         [] o = "missing" -> onAttemptError(port[p], i, TRUE)]
  /\ UNCHANGED limVars

\* downloadService.ts:291 -- arrayBuffer() settles.
BodyRead(p, i, ok) ==
  /\ i \in 1..Len(port[p].item)
  /\ port[p].item[i].st = "body"
  /\ port' = [port EXCEPT ![p] =
       IF ok THEN onBody(port[p], i) ELSE onAttemptError(port[p], i, FALSE)]
  /\ UNCHANGED limVars

\* downloadService.ts:355-362 -- the timer of a delay fires: after a
\* backoff the loop comes round (320, 262), after a throttle the task
\* returns true (301-304).
TimerFires(p, i) ==
  /\ i \in 1..Len(port[p].item)
  /\ port[p].item[i].st \in {"backoff", "throttle"}
  /\ port' = [port EXCEPT ![p] =
       IF port[p].item[i].st = "backoff"
         THEN resume(port[p], i)
         ELSE completeItem(port[p], i, TRUE)]
  /\ UNCHANGED limVars

\* downloadService.ts:206-210 -- generateAsync resolves; the archive is
\* encoded and handed to chrome.downloads.download.
ZipGenerated(p) ==
  /\ port[p].pc = "packaging"
  /\ port' = [port EXCEPT ![p].pc = "sink",
                          ![p].generated = @ + 1,
                          ![p].sinkCalls = @ + 1]
  /\ UNCHANGED limVars

\* downloadService.ts:211-222 and 233-240 -- the callback of the download.
SinkReturns(p, ok) ==
  /\ port[p].pc = "sink"
  /\ port' = [port EXCEPT ![p] =
       afterTriggerDownload(port[p], IF ok THEN NoLastError ELSE SomeLastError)]
  /\ UNCHANGED limVars

\* The worker with one connection.
Next ==
  \E p \in {"p1"} :
    \/ \E m \in Messages : StartDownload(p, m)
    \/ CancelDownload(p)
    \/ \E r \in PageResponses : PageResponse(p, r)
    \/ \E i \in 1..MaxItems : \E o \in FetchOutcomes : FetchResponse(p, i, o)
    \/ \E i \in 1..MaxItems : \E ok \in BOOLEAN : BodyRead(p, i, ok)
    \/ \E i \in 1..MaxItems : TimerFires(p, i)
    \/ ZipGenerated(p)
    \/ \E ok \in BOOLEAN : SinkReturns(p, ok)

Spec == Init /\ [][Next]_vars

\* The worker with one connection on which start requests keep arriving
\* while a run is active, and the content script at the other end of it;
\* the runs are sequential ones.
BusyMessages == {m \in Messages : m.sequential}

NextBusy ==
  \E p \in {"p1"} :
    \/ \E m \in BusyMessages : StartDownload(p, m)
    \/ \E m \in BusyMessages : RefusedStart(p, m)
    \/ ClientDisconnectsOnError(p)
    \/ CancelDownload(p)
    \/ \E r \in PageResponses : PageResponse(p, r)
    \/ \E i \in 1..MaxItems : \E o \in FetchOutcomes : FetchResponse(p, i, o)
    \/ \E i \in 1..MaxItems : \E ok \in BOOLEAN : BodyRead(p, i, ok)
    \/ \E i \in 1..MaxItems : TimerFires(p, i)
    \/ ZipGenerated(p)
    \/ \E ok \in BOOLEAN : SinkReturns(p, ok)

SpecBusy == Init /\ [][NextBusy]_vars

\* The worker with one connection and galleries around the threshold of
\* the sequential fallback, up to the first await of downloadScreens: the
\* requests are not answered.
LargeMessages ==
  [concurrency : {NaN, Num(10), Num(20), Num(30), Num(55), Num(120)},
   sequential : BOOLEAN,
   throttleMs : {NaN, Num(1000), Num(1500), Num(3000), Num(60000)},
   screens : {Screens(n) : n \in {1, LARGE_GALLERY_THRESHOLD - 1,
                                  LARGE_GALLERY_THRESHOLD,
                                  LARGE_GALLERY_THRESHOLD + 1}}]

NextLarge ==
  \E p \in {"p1"} :
    \E m \in LargeMessages : StartDownload(p, m)

SpecLarge == Init /\ [][NextLarge]_vars

\* The fields of a 'download' message as they arrive, of any type.
RawConcurrency ==
  {Raw(k, 0) : k \in {"undefined", "null", "true", "false", "NaN", "Infinity",
                       "empty string", "text"}}
    \cup {Raw("number", t) : t \in {-15, -5, 0, 10, 25, 30, 55, 60, 85, 99, 120, 1000}}
    \cup {Raw("numeric string", t) : t \in {70, 200}}

RawSequential == {Raw(k, 0) : k \in {"undefined", "true", "false", "text"}}

RawThrottle ==
  {Raw("undefined", 0)} \cup {Raw("number", t) : t \in {1000, 3005, 60000}}

RawMessages ==
  [concurrency : RawConcurrency, sequential : RawSequential,
   throttleMs : RawThrottle,
   screens : {NoScreens, Screens(1), Screens(2)}]

\* index.ts:38-41 -- the conversions startDownload applies to the fields.
converted(raw) ==
  [concurrency |-> Number(raw.concurrency),
   sequential |-> Boolean(raw.sequential),
   throttleMs |-> Number(raw.throttleMs),
   screens |-> raw.screens]

\* The worker with one connection, receiving a start request whose fields
\* are of any type.
NextOptions ==
  \E p \in {"p1"} :
    \E raw \in RawMessages : StartDownload(p, converted(raw))

SpecOptions == Init /\ [][NextOptions]_vars

\* The bodies the listing may answer with: a list and a cursor, or none, at
\* each of the three places.
RawResponses ==
  [ok : BOOLEAN, success : {"true", "false", "absent"},
   direct : {Absent, List(2, "b")},
   result : {Absent, List(0, "none"), List(1, "a")},
   data : {Absent, List(1, "b")},
   directNext : {"none", "b"}, resultNext : {"none", "a"}, dataNext : {"none", "0"}]

ProbeMessages ==
  [concurrency : {Num(10), Num(25), Num(30), NaN}, sequential : {FALSE},
   throttleMs : {NaN, Num(3000)}, screens : {NoScreens}]

\* The worker with one connection and runs that collect their lists from
\* a listing that answers with such bodies.
NextProbe ==
  \E p \in {"p1"} :
    \/ \E m \in ProbeMessages : StartDownload(p, m)
    \/ \E json \in RawResponses : PageResponse(p, probed(json))

SpecProbe == Init /\ [][NextProbe]_vars

\* The worker with two connections (two tabs), each sending pre-fetched
\* lists of one screenshot, as the content script does.
PortsMessages == {m \in Messages : m.sequential /\ m.screens = Screens(1)}

NextPorts ==
  \E p \in Ports :
    \/ \E m \in PortsMessages : StartDownload(p, m)
    \/ CancelDownload(p)
    \/ \E o \in FetchOutcomes : FetchResponse(p, 1, o)
    \/ \E ok \in BOOLEAN : BodyRead(p, 1, ok)
    \/ TimerFires(p, 1)
    \/ ZipGenerated(p)
    \/ \E ok \in BOOLEAN : SinkReturns(p, ok)

SpecPorts == Init /\ [][NextPorts]_vars

\* The worker with one connection, sequential runs, and an environment
\* that answers: a page request, fetch, body read, delay, archive
\* generation or download call that is pending eventually returns or
\* fails.  Nothing obliges the user to start or to cancel.
EnvStep(p) ==
  \/ \E r \in PageResponses : PageResponse(p, r)
  \/ \E i \in 1..MaxItems : \E o \in FetchOutcomes : FetchResponse(p, i, o)
  \/ \E i \in 1..MaxItems : \E ok \in BOOLEAN : BodyRead(p, i, ok)
  \/ \E i \in 1..MaxItems : TimerFires(p, i)
  \/ ZipGenerated(p)
  \/ \E ok \in BOOLEAN : SinkReturns(p, ok)

NextLive ==
  \E p \in {"p1"} :
    \/ \E m \in BusyMessages : StartDownload(p, m)
    \/ CancelDownload(p)
    \/ \E r \in PageResponses : PageResponse(p, r)
    \/ \E i \in 1..MaxItems : \E o \in FetchOutcomes : FetchResponse(p, i, o)
    \/ \E i \in 1..MaxItems : \E ok \in BOOLEAN : BodyRead(p, i, ok)
    \/ \E i \in 1..MaxItems : TimerFires(p, i)
    \/ ZipGenerated(p)
    \/ \E ok \in BOOLEAN : SinkReturns(p, ok)

LiveSpec == Init /\ [][NextLive]_vars /\ WF_vars(EnvStep("p1"))

\* ------------------------------------------------------------- claims
Last(seq) == seq[Len(seq)]

\* The messages of the run on the port.
RunEvents(s) == s.events
Terminals(s) == SelectSeq(RunEvents(s), LAMBDA e : e.type \in TerminalTypes)

\* The run on the port has ended with a terminal event.
Ended(s) ==
  /\ ~s.activeTask
  /\ RunEvents(s) # <<>>
  /\ Last(RunEvents(s)).type \in TerminalTypes

\* C2: a run emits exactly one terminal event (done, error or cancelled)
\* and no message of the run follows it: while the run is active it has
\* emitted none, and once it is over its messages hold one, the last.
C2_OneTerminalEventLast ==
  \A p \in Ports :
    LET s == port[p]
    IN /\ s.activeTask => Len(Terminals(s)) = 0
       /\ (~s.activeTask /\ s.events # <<>>) =>
            /\ Len(Terminals(s)) = 1
            /\ Last(RunEvents(s)).type \in TerminalTypes

\* C2 witness: a cancelled run whose terminal event closes a log that
\* holds a progress event.
C2_Witness ==
  LET s == port["p1"]
  IN /\ Ended(s)
     /\ Last(RunEvents(s)).type = "cancelled"
     /\ \E k \in 1..Len(s.events) : s.events[k].type = "progress"

\* C3: processed = succeeded + failed at every progress event and at the
\* done event (and in the counters themselves), and the done event of a
\* run that downloaded its items carries processed = the number of items.
\* The done of an empty gallery carries no counters: total 0, failed 0.
C3_ProcessedIsSucceededPlusFailed ==
  \A p \in Ports :
    LET s == port[p]
    IN /\ s.processed = s.succeeded + s.failed
       /\ \A k \in 1..Len(s.events) :
            LET e == s.events[k]
            IN /\ e.type = "progress" => e.completed = e.succeeded + e.failed
               /\ (e.type = "done" /\ "processed" \in DOMAIN e) =>
                    /\ e.processed = e.succeeded + e.failed
                    /\ e.processed = s.total
               /\ (e.type = "done" /\ "processed" \notin DOMAIN e) =>
                    /\ s.total = 0
                    /\ e.total = 0 /\ e.failed = 0

\* C3 witness: a done event after one success and one failure.
C3_Witness ==
  LET s == port["p1"]
  IN /\ Ended(s)
     /\ Last(s.events).type = "done"
     /\ "processed" \in DOMAIN Last(s.events)
     /\ Last(s.events).succeeded = 1
     /\ Last(s.events).failed = 1

\* C4: once the signal of a run is aborted no fetch is started for any
\* item, in the step that aborts it or later: not the first fetch of an
\* item that was queued, not a retry of an item that was in flight.
C4_NoFetchAfterAbort ==
  [][\A p \in Ports :
       port'[p].signalAborted =>
         /\ Len(port'[p].item) = Len(port[p].item)
         /\ \A i \in 1..Len(port[p].item) :
              port'[p].item[i].fetches = port[p].item[i].fetches]_vars

\* C4 witness: after an abort, an item that was queued and never fetched,
\* and an item that was in flight with attempts left.
C4_Witness ==
  LET s == port["p1"]
  IN /\ s.signalAborted
     /\ \E i, j \in 1..Len(s.item) :
          /\ s.item[i].st = "aborted" /\ s.item[i].fetches = 0
          /\ s.item[j].st = "aborted" /\ s.item[j].fetches = 2

\* A step that aborts the signal of port p while items are in flight and
\* others are queued in the limiter.
CancelRace(p) ==
  /\ ~port[p].signalAborted /\ port'[p].signalAborted
  /\ port[p].pc = "downloading"
  /\ \E i \in 1..Len(port[p].item) : port[p].item[i].st = "queued"

WasQueued(p) == {i \in 1..Len(port[p].item) : port[p].item[i].st = "queued"}

C6_CancelAlwaysEndsCancelled ==
  \A p \in Ports :
    (port[p].signalAborted /\ Ended(port[p])) =>
      Last(RunEvents(port[p])).type = "cancelled"

C8_HandlerChangesNothing ==
  [][\A p \in Ports : \A m \in Messages :
       (port[p].activeTask /\ RefusedStart(p, m)) =>
         /\ port'[p] = [port[p] EXCEPT !.replies = Append(@, AlreadyRunningPayload)]
         /\ \A q \in Ports \ {p} : port'[q] = port[q]]_vars

\* C9 as stated: at no time are two runs active on the one DownloadService.
C9_AtMostOneActiveRun ==
  Cardinality({p \in Ports : port[p].activeTask}) <= 1
\* An attempt of item i of port p fails with an error to retry: a network
\* error or a status that is not ok, or a body that cannot be read.
TransientFailure(p, i) == FetchResponse(p, i, "transient") \/ BodyRead(p, i, FALSE)

\* An attempt of item i of port p succeeds: the body has been read.
AttemptSucceeds(p, i) == BodyRead(p, i, TRUE)

\* C12: every attempt of an item issues exactly one fetch and there are at
\* most retryAttempts of them.  Without cancellation, an attempt that
\* fails with an error to retry is followed by a backoff and one more fetch
\* if it was not the last, and by the final failure, with no more fetch, if
\* it was attempt number retryAttempts; an attempt that succeeds makes the
\* item succeed with the fetches made so far, the k of a success at the
\* k-th attempt; an item that has succeeded or failed is not fetched again.
C12_FetchesEqualAttempts ==
  /\ [](\A p \in Ports : \A i \in 1..Len(port[p].item) :
         LET it == port[p].item[i]
         IN /\ it.fetches = it.attempt
            /\ it.fetches <= port[p].opts.retryAttempts
            /\ it.st \in InFlight \cup {"ok", "failed"} => it.fetches >= 1)
  /\ [][\A p \in Ports : \A i \in 1..Len(port[p].item) :
         LET it == port[p].item[i]
             retryAttempts == port[p].opts.retryAttempts
         IN /\ (TransientFailure(p, i) /\ it.attempt < retryAttempts) =>
                 /\ port'[p].item[i].st = "backoff"
                 /\ port'[p].item[i].fetches = it.fetches
            /\ (TransientFailure(p, i) /\ it.attempt >= retryAttempts) =>
                 /\ port'[p].item[i].st = "failed"
                 /\ port'[p].item[i].fetches = retryAttempts
            /\ (TimerFires(p, i) /\ it.st = "backoff") =>
                 /\ port'[p].item[i].st = "fetch"
                 /\ port'[p].item[i].fetches = it.fetches + 1
            /\ AttemptSucceeds(p, i) =>
                 /\ port'[p].item[i].st \in {"throttle", "ok"}
                 /\ port'[p].item[i].fetches = it.fetches
            /\ (TimerFires(p, i) /\ it.st = "throttle") =>
                 /\ port'[p].item[i].st = "ok"
                 /\ port'[p].item[i].fetches = it.fetches
            /\ (it.st \in {"ok", "failed"} /\ port[p].activeTask /\ port'[p].activeTask) =>
                 port'[p].item[i] = it]_vars

\* C12 witness: one item succeeded at its last attempt, after two errors,
\* and another failed for good at its third.
C12_Witness ==
  LET s == port["p1"]
  IN /\ Len(s.item) = 2
     /\ ~s.signalAborted
     /\ s.item[1].st = "ok" /\ s.item[1].fetches = 3
     /\ s.item[2].st = "failed" /\ s.item[2].fetches = 3
     /\ \E k \in 1..Len(s.events) :
          s.events[k] = LogPayload("warn", [text |-> "Retry", id |-> 2, attempt |-> 2])

\* C13: an item whose fetch is answered with the 403 of a missing image
\* fails in that step, whatever the number of the attempt: no backoff, no
\* further fetch, the item is counted as failed and not as succeeded; a run
\* of that one item goes on to packaging with failed 1 and succeeded 0, and
\* when the download is accepted its done message carries these counts.
C13_MissingFailsAtOnce ==
  [][\A p \in Ports : \A i \in 1..Len(port[p].item) :
       LET s == port[p]
           t == port'[p]
       IN /\ FetchResponse(p, i, "missing") =>
               /\ t.item[i].st = "failed"
               /\ t.item[i].fetches = s.item[i].fetches
               /\ t.failed = s.failed + 1
               /\ t.succeeded = s.succeeded
               /\ t.processed = s.processed + 1
               /\ Len(s.item) = 1 =>
                    (t.pc = "packaging" /\ t.failed = 1 /\ t.succeeded = 0)
          /\ (s.item[i].st = "failed" /\ s.activeTask /\ t.activeTask) =>
               t.item[i] = s.item[i]
          /\ (SinkReturns(p, TRUE) /\ Len(s.item) = 1 /\ s.failed = 1) =>
               /\ Ended(t)
               /\ Last(t.events).type = "done"
               /\ Last(t.events).failed = 1
               /\ Last(t.events).succeeded = 0]_vars

\* C13 witness: a run of one item that failed at its only fetch has ended
\* with done.
C13_Witness ==
  LET s == port["p1"]
  IN /\ Ended(s) /\ Last(s.events).type = "done"
     /\ Len(s.item) = 1
     /\ s.item[1].st = "failed" /\ s.item[1].fetches = 1
     /\ Last(s.events).failed = 1 /\ Last(s.events).succeeded = 0

\* Every item of the run has settled, as a success or as a failure.
AllSettled(s) == \A i \in 1..Len(s.item) : s.item[i].st \in {"ok", "failed"}

\* C14: the failure of items never ends a run.  A step in which an item
\* fails, the signal not being aborted, leaves the run downloading, or
\* takes it to packaging if that item was the last to settle; the archive
\* is packaged only when every item has settled, however many have failed;
\* when the download is accepted the run ends with done; and the only
\* steps that post an error are a failed page request of the collector and
\* a download that was not accepted.
C14_ItemFailuresNeverAbort ==
  /\ [](\A p \in Ports :
         port[p].pc \in {"packaging", "sink"} =>
           (AllSettled(port[p]) /\ port[p].processed = port[p].total))
  /\ [][\A p \in Ports :
         LET s == port[p]
             t == port'[p]
         IN /\ \A i \in 1..Len(s.item) :
                 (s.activeTask /\ ~t.signalAborted /\ s.item[i].st # "failed"
                    /\ i <= Len(t.item) /\ t.item[i].st = "failed") =>
                   /\ t.activeTask
                   /\ t.pc = IF AllSettled(t) THEN "packaging" ELSE "downloading"
                   /\ \A k \in 1..Len(t.events) : t.events[k].type \notin TerminalTypes
            /\ SinkReturns(p, TRUE) => (Ended(t) /\ Last(t.events).type = "done")
            /\ (t.events # s.events /\ Last(t.events).type = "error") =>
                 \/ s.pc = "collecting"
                 \/ SinkReturns(p, FALSE)]_vars

\* C14 witness: a run in which every item failed has ended with done.
C14_Witness ==
  LET s == port["p1"]
  IN /\ Ended(s) /\ Last(s.events).type = "done"
     /\ ~s.signalAborted
     /\ s.total = 2 /\ s.failed = 2 /\ s.succeeded = 0

\* C15: when the download of the finished archive is not accepted, the run
\* ends in that step with one terminal event, the error carrying the
\* message of the failure; it has posted no done; and the archive is handed
\* over once per run, not again after a failure.
C15_SinkFailureIsOneError ==
  /\ [](\A p \in Ports : port[p].sinkCalls <= 1 /\ port[p].generated <= 1)
  /\ [][\A p \in Ports :
         SinkReturns(p, FALSE) =>
           LET t == port'[p]
           IN /\ Ended(t)
              /\ Last(t.events) = ErrorPayload(SomeLastError.message)
              /\ Len(Terminals(t)) = 1
              /\ \A k \in 1..Len(t.events) : t.events[k].type # "done"
              /\ t.sinkCalls = 1
              /\ t.pc = "idle"]_vars

\* C15 witness: a run of two items has ended with the error of a download
\* that was not accepted.
C15_Witness ==
  LET s == port["p1"]
  IN /\ Ended(s)
     /\ Last(s.events) = ErrorPayload(SomeLastError.message)
     /\ s.total = 2 /\ s.succeeded = 2
     /\ s.sinkCalls = 1

\* The start event of the run on the port.
StartEvents(s) == {k \in 1..Len(s.events) : s.events[k].type = "start"}
\* The notice of the sequential fallback.
DowngradeNotice == StatusPayload("Large gallery detected.")

\* C16: a run of 800 items or more that was asked for a concurrency above
\* 1 posts the downgrade notice before its start event, reports
\* concurrency 1 in the start event, builds its limiter with capacity 1 and
\* throttles by the larger of the throttle asked for and 150 ms; a run of
\* fewer items, or one asked for concurrency 1, posts no notice and uses
\* the concurrency and the throttle it was asked for.
C16_SequentialFallback ==
  \A p \in Ports :
    LET s == port[p]
        big == s.total >= 800 /\ s.opts.concurrency > 1
    IN \A k \in StartEvents(s) :
         /\ s.events[k].total = s.total
         /\ big =>
              /\ \E j \in 1..(k - 1) : s.events[j] = DowngradeNotice
              /\ s.events[k].concurrency = 1
              /\ s.throttler.maxConcurrency = 1
              /\ s.throttleDelayMs = Max(s.opts.throttleDelayMs, 150)
         /\ ~big =>
              /\ \A j \in 1..Len(s.events) : s.events[j] # DowngradeNotice
              /\ s.events[k].concurrency = s.opts.concurrency
              /\ s.throttler.maxConcurrency = s.opts.concurrency
              /\ s.throttleDelayMs = s.opts.throttleDelayMs

\* C16 witness: a run of exactly 800 items asked for concurrency 5 and a
\* throttle of 100 ms runs with one slot and 150 ms.
C16_Witness ==
  LET s == port["p1"]
  IN /\ s.pc = "downloading"
     /\ s.total = 800
     /\ s.opts.concurrency = 5 /\ s.opts.throttleDelayMs = 100
     /\ s.throttler.maxConcurrency = 1 /\ s.throttleDelayMs = 150
     /\ s.throttler.activeCount = 1 /\ Len(s.throttler.queue) = 799

\* C17 as stated: the done event of a run carries the number of items of
\* the run as its total, the total of the start event, and succeeded and
\* failed that add up to it.
C17_DoneTotalIsItemCount ==
  \A p \in Ports :
    LET s == port[p]
    IN (Ended(s) /\ Last(s.events).type = "done" /\ Last(s.events) # EmptyDonePayload) =>
         /\ Last(s.events).total = s.total
         /\ \A k \in StartEvents(s) : Last(s.events).total = s.events[k].total
         /\ Last(s.events).succeeded + Last(s.events).failed = Last(s.events).total

\* C18: a run whose list of screenshots is empty ends at once with the
\* done event of total 0 and failed 0: in the step of the start request
\* when the empty list came with it, in the step of the page that ends the
\* collection when nothing was collected.  It posts no start and no
\* progress, has no item and so fetches none, and generates and hands over
\* no archive.
C18_EmptyListEndsAtOnce ==
  [][\A p \in Ports :
       LET s == port[p]
           t == port'[p]
           emptyDone == /\ Ended(t)
                        /\ Last(t.events) = EmptyDonePayload
                        /\ Len(Terminals(t)) = 1
                        /\ \A k \in 1..Len(t.events) :
                             t.events[k].type \notin {"start", "progress"}
                        /\ t.item = <<>>
                        /\ t.generated = 0 /\ t.sinkCalls = 0
       IN /\ \A m \in Messages :
               (StartDownload(p, m) /\ m.screens = Screens(0)) => emptyDone
          /\ \A r \in PageResponses :
               (PageResponse(p, r) /\ ~fetchPage(r).threw /\ fetchPage(r).screens = 0
                  /\ s.allScreens = 0) => emptyDone
          /\ (t.events # s.events /\ Last(t.events) = EmptyDonePayload) =>
               (emptyDone /\ t.total = 0)]_vars

\* C18 witness: a run that collected its list and found nothing has ended.
C18_Witness ==
  LET s == port["p1"]
  IN /\ Ended(s)
     /\ ~s.opts.screens.given
     /\ s.events = <<StatusPayload("Collecting gallery metadata..."),
                     StatusPayload("No screenshots found in your gallery."),
                     EmptyDonePayload>>

\* C19 as stated: the collection ends after finitely many page requests
\* when a page comes back empty, when a continuation cursor equals the
\* current cursor, or when it repeats a cursor used earlier in the
\* collection.  The cursors of the model are finitely many, so a collection
\* that goes on for ever uses one of them again and again: every listing
\* the model can answer with is one for which the collection has to end.
C19_CollectionEnds ==
  \A p \in {"p1"} : (port[p].pc = "collecting") ~> (port[p].pc # "collecting")

\* C20: a page that says success false and holds no item is an empty page:
\* the collection ends without an error and the run goes on with what was
\* collected before; a page that says success false and holds items fails
\* the collection, and the run ends with the error that describes it.
C20_LogicalFailure ==
  [][\A p \in Ports : \A r \in PageResponses :
       (PageResponse(p, r) /\ r.ok /\ r.success = "false") =>
         LET s == port[p]
             t == port'[p]
         IN IF r.screens = 0
              THEN /\ fetchPage(r) = [threw |-> FALSE, screens |-> 0,
                                      last |-> "none", nextCursor |-> "none"]
                   /\ t.pc # "collecting"
                   /\ \A k \in 1..Len(t.events) : t.events[k].type # "error"
                   /\ t.total = s.allScreens
                   /\ IF s.allScreens = 0
                        THEN Last(t.events) = EmptyDonePayload
                        ELSE t.pc = "downloading" /\ Len(t.item) = s.allScreens
              ELSE /\ fetchPage(r).threw
                   /\ Ended(t)
                   /\ Last(t.events) = ErrorPayload("Unexpected Lightshot response")]_vars

\* C20 witness: a collection that had a page of items already has failed
\* on a page that said success false and held items.
C20_Witness ==
  LET s == port["p1"]
  IN /\ Ended(s)
     /\ Last(s.events) = ErrorPayload("Unexpected Lightshot response")
     /\ s.allScreens >= 1
     /\ s.cursor # "0"

\* C21 as stated: a page that says success false and holds items is taken
\* for its items: no error is raised, the items are added to those
\* collected and the collection goes on as it does after the same page
\* without the flag.
C21_DataFavoredOverFlag ==
  [][\A p \in Ports : \A r \in PageResponses :
       (PageResponse(p, r) /\ r.ok /\ r.success = "false" /\ r.screens > 0) =>
         LET s == port[p]
             t == port'[p]
         IN /\ ~fetchPage(r).threw
            /\ \A k \in 1..Len(t.events) : t.events[k].type # "error"
            /\ t = onPage(s, fetchPage([r EXCEPT !.success = "true"]))]_vars

\* The progress events of the run, by their places in the log.
ProgressEvents(s) == {k \in 1..Len(s.events) : s.events[k].type = "progress"}

\* The number of screenshots of the run: the list that came with the
\* request, or what getAllScreens collected.
ItemCount(s) == IF s.opts.screens.given THEN s.opts.screens.n ELSE s.allScreens

\* C22: a run that has posted a progress event has posted exactly one start
\* event, before its first progress event, with the number of items of the
\* run as its total; no run posts a second start event.
C22_OneStartBeforeProgress ==
  \A p \in Ports :
    LET s == port[p]
    IN /\ Cardinality(StartEvents(s)) <= 1
       /\ ProgressEvents(s) # {} =>
            /\ Cardinality(StartEvents(s)) = 1
            /\ \A j \in StartEvents(s) :
                 /\ \A k \in ProgressEvents(s) : j < k
                 /\ s.events[j].total = ItemCount(s)
                 /\ s.events[j].total = Len(s.item)

\* C22 witness: a run that collected two screenshots has posted its start
\* event and two progress events and has ended.
C22_Witness ==
  LET s == port["p1"]
  IN /\ Ended(s)
     /\ ~s.opts.screens.given
     /\ Cardinality(ProgressEvents(s)) = 2
     /\ Cardinality(StartEvents(s)) = 1

\* The progress events of the run, in the order they were posted.
Progress(s) == SelectSeq(s.events, LAMBDA e : e.type = "progress")

\* The items of the run whose tasks have returned: downloaded, or given up.
Completed(s) == {i \in 1..Len(s.item) : s.item[i].st \in {"ok", "failed"}}

\* C23: every item that settles as downloaded or as failed for good posts
\* exactly one progress event, in the step in which it settles, so the
\* progress events come in completion order: the k-th of them carries
\* completed = k, with succeeded + failed = k and the total of the run, they
\* name as many distinct items as have settled, and a run that ends with
\* done on a list that is not empty has posted one for each of its items.
C23_OneProgressPerSettledItem ==
  /\ [](\A p \in Ports :
         LET s == port[p]
             P == Progress(s)
         IN /\ \A k \in 1..Len(P) :
                 /\ P[k].completed = k
                 /\ P[k].succeeded + P[k].failed = k
                 /\ P[k].total = s.total
            /\ {P[k].currentId : k \in 1..Len(P)} = Completed(s)
            /\ Len(P) = Cardinality(Completed(s))
            /\ Len(P) = s.processed
            /\ (Ended(s) /\ Last(s.events).type = "done" /\ s.total > 0) =>
                 Len(P) = s.total)
  /\ [][\A p \in Ports :
         LET s == port[p]
             t == port'[p]
         IN (s.activeTask /\ t.item # s.item /\ Len(t.item) = Len(s.item)) =>
              /\ Cardinality(Completed(t) \ Completed(s)) <= 1
              /\ Completed(s) \subseteq Completed(t)
              /\ \A i \in Completed(t) \ Completed(s) :
                   /\ Len(Progress(t)) = Len(Progress(s)) + 1
                   /\ Last(Progress(t)).currentId = i
                   /\ Last(Progress(t)).completed = Len(Progress(s)) + 1
                   /\ Last(Progress(t)).succeeded =
                        Cardinality({j \in Completed(t) : t.item[j].st = "ok"})
                   /\ Last(Progress(t)).failed =
                        Cardinality({j \in Completed(t) : t.item[j].st = "failed"})
              /\ Completed(t) = Completed(s) => Progress(t) = Progress(s)]_vars

\* C23 witness: the second item of a run settled first, as failed, and the
\* first settled after it, as downloaded; the run has ended with done.
C23_Witness ==
  LET s == port["p1"]
  IN /\ Ended(s) /\ Last(s.events).type = "done"
     /\ Len(Progress(s)) = 2
     /\ Progress(s)[1] = ProgressPayload(1, 2, 2, 0, 1)
     /\ Progress(s)[2] = ProgressPayload(2, 2, 1, 1, 1)

\* The run is at or past the call of generateAsync.
Finalizing(s) == s.pc \in {"packaging", "sink"}

\* C24: the archive of a run is generated at most once and handed over at
\* most once; generation begins from the download phase only, when every
\* item has settled as downloaded or failed, and from then on the entries
\* of the archive and the items stay as they are; a run cancelled while it
\* collects or downloads ends in that step, cancelled, with no archive
\* generated and no call of the sink.
C24_ArchiveFinalizedOnce ==
  /\ [](\A p \in Ports :
         LET s == port[p]
         IN /\ s.generated <= 1 /\ s.sinkCalls <= 1
            /\ s.sinkCalls <= s.generated
            /\ s.zip \subseteq {i \in 1..Len(s.item) :
                                   s.item[i].st \in {"throttle", "ok", "aborted"}}
            /\ (Finalizing(s) \/ s.generated > 0) =>
                 /\ Completed(s) = 1..Len(s.item)
                 /\ s.zip = {i \in 1..Len(s.item) : s.item[i].st = "ok"}
            /\ (s.events # <<>> /\ Last(s.events).type = "cancelled") =>
                 s.generated = 0 /\ s.sinkCalls = 0)
  /\ [][\A p \in Ports :
         LET s == port[p]
             t == port'[p]
         IN /\ (Finalizing(t) /\ ~Finalizing(s)) =>
                 /\ s.pc = "downloading" /\ t.pc = "packaging"
                 /\ s.generated = 0 /\ t.generated = 0
                 /\ ~t.signalAborted
            /\ Finalizing(s) =>
                 /\ t.pc \in {"packaging", "sink", "idle"}
                 /\ t.zip = s.zip /\ t.item = s.item
                 /\ t.generated >= s.generated
            /\ (CancelDownload(p) /\ s.activeTask /\ ~Finalizing(s)) =>
                 /\ Ended(t) /\ Last(t.events).type = "cancelled"
                 /\ t.generated = 0 /\ t.sinkCalls = 0]_vars

\* C24 witness: a run of two items, one downloaded and one failed, has
\* generated its archive once and handed it over once.
C24_Witness ==
  LET s == port["p1"]
  IN /\ s.pc = "sink"
     /\ s.generated = 1 /\ s.sinkCalls = 1
     /\ Len(s.item) = 2
     /\ s.zip = {2}
     /\ s.item[1].st = "failed"

\* The value is a finite number: a number that is not NaN or an infinity,
\* or a numeral.
IsFiniteNumber(value) == value.kind \in {"number", "numeric string"}

\* C25 as stated: whatever the fields of a start request, the concurrency
\* given to the run is an integer in 1..10, it is 4 when the concurrency
\* field is not a finite number, and a sequential field that is true makes
\* it 1.
C25_ConcurrencyNormalised ==
  [][\A p \in Ports : \A raw \in RawMessages :
       (port'[p].opts = runOptions(converted(raw)) /\ StartDownload(p, converted(raw))) =>
         LET c == port'[p].opts.concurrency
         IN /\ c \in 1..10
            /\ Boolean(raw.sequential) => c = 1
            /\ (~Boolean(raw.sequential) /\ ~IsFiniteNumber(raw.concurrency)) =>
                 c = 4]_vars

\* C25 amended: the concurrency given to the run is an integer in 1..10;
\* a sequential field that is truthy makes it 1; otherwise it is 4 when
\* Number() of the concurrency field is not finite (the field is absent, or
\* NaN, an infinity, or text that is no numeral), and the floor of that
\* number brought into 1..10 when it is finite, so null, false and the
\* empty string, which convert to 0, give 1, and so does true.
C25_ConcurrencyOfConvertedInput ==
  [][\A p \in Ports : \A raw \in RawMessages :
       (port'[p].opts = runOptions(converted(raw)) /\ StartDownload(p, converted(raw))) =>
         LET c == port'[p].opts.concurrency
             parsed == Number(raw.concurrency)
         IN /\ c \in 1..10
            /\ Boolean(raw.sequential) => c = 1
            /\ (~Boolean(raw.sequential) /\ ~parsed.finite) => c = 4
            /\ (~Boolean(raw.sequential) /\ parsed.finite) =>
                 /\ parsed.tenths < 20 => c = 1
                 /\ parsed.tenths >= 100 => c = 10
                 /\ parsed.tenths \in 10..109 =>
                      (10 * c <= parsed.tenths /\ parsed.tenths < 10 * c + 10)
            /\ (~Boolean(raw.sequential)
                  /\ raw.concurrency.kind \in {"null", "false", "true", "empty string"}) =>
                 c = 1]_vars

\* C25 witness: a run was given the concurrency 4 (no number among the
\* inputs has the floor 4) and another the concurrency 10.
C25_Witness ==
  LET s == port["p1"]
  IN /\ s.activeTask
     /\ s.opts.concurrency = 4
     /\ s.throttler.maxConcurrency = 4
     /\ s.pc = "downloading"

\* The cancelled events of the run.
CancelledEvents(s) == {k \in 1..Len(s.events) : s.events[k] = CancelledPayload}

\* C26 as stated: a cancel signal that follows another in the same run
\* changes nothing, so two signals or more lead to the events and the end
\* that one leads to, and the run that was signalled, once or more often,
\* ends with exactly one cancelled event.
C26_CancelIdempotent ==
  /\ [][\A p \in Ports :
         (CancelDownload(p) /\ port[p].signalAborted) => port'[p] = port[p]]_vars
  /\ [](\A p \in Ports :
         LET s == port[p]
         IN (s.signalAborted /\ Ended(s)) =>
              /\ Cardinality(CancelledEvents(s)) = 1
              /\ Last(s.events) = CancelledPayload)

\* The part of C26 that holds: a cancel signal that reaches a run that was
\* signalled before, or a connection whose run is over, changes nothing,
\* and no run posts more than one cancelled event.
C26_RepeatedCancelChangesNothing ==
  /\ [][\A p \in Ports :
         (CancelDownload(p) /\ (port[p].signalAborted \/ ~port[p].activeTask)) =>
           port'[p] = port[p]]_vars
  /\ [](\A p \in Ports : Cardinality(CancelledEvents(port[p])) <= 1)

\* The number is a positive integer: 1, 2, 3, ...
PositiveInteger(value) ==
  /\ value.finite
  /\ value.tenths >= 10
  /\ (value.tenths \div 10) * 10 = value.tenths

\* C27: createThrottler throws exactly when its argument is not a positive
\* integer (zero, negative, with a fractional part, NaN): no limiter
\* exists then, so no unit is ever submitted and nothing more happens; for
\* a positive integer the limiter is built with that capacity.
C27_InvalidCapacityFailsFast ==
  /\ [](/\ limState = "threw" =>
             /\ ~PositiveInteger(capArg)
             /\ lim = newThrottler(0)
             /\ unit = <<>> /\ taskResult = <<>>
        /\ limState = "ready" =>
             /\ PositiveInteger(capArg)
             /\ Num(10 * lim.maxConcurrency) = capArg)
  /\ [][/\ limState = "none" => limState' # "none"
        /\ limState = "threw" => UNCHANGED vars
        /\ limState = "ready" => limState' = "ready"]_vars

\* C27 witness: createThrottler(1.5) has thrown.
C27_Witness ==
  /\ limState = "threw"
  /\ capArg = Num(15)
  /\ unit = <<>>

\* C28 as stated: a slot is given back only when the task of its unit has
\* settled, and the head of the queue is started in that very step; so the
\* slots in use are those of the units whose tasks are running, their
\* number is never negative, and while a unit waits in the queue exactly N
\* units are executing.
C28_NoIdleSlotWhileQueued ==
  /\ [](limState = "ready" =>
         /\ lim.activeCount >= 0
         /\ lim.activeCount = Cardinality(Executing)
         /\ lim.queue # <<>> => Cardinality(Executing) = lim.maxConcurrency)
  /\ [][limState = "ready" =>
         /\ \A u \in 1..Len(unit) :
              (unit[u] = "running" /\ unit'[u] # "running") =>
                /\ Settle(u, "fulfilled") \/ Settle(u, "rejected")
                /\ lim.queue # <<>> =>
                     /\ lim'.queue = Tail(lim.queue)
                     /\ unit'[Head(lim.queue)] = "running"
         /\ lim'.activeCount < lim.activeCount =>
              \E u \in 1..Len(unit) : unit[u] = "running" /\ unit'[u] # "running"]_vars

\* The part of C28 that is about the counter: activeCount is never
\* negative and never above N, every running task holds a slot, and while
\* a unit waits in the queue all N slots are taken; as long as no task
\* function has thrown, the slots taken are those of the running tasks.
C28_SlotCounter ==
  limState = "ready" =>
    /\ lim.activeCount \in 0..lim.maxConcurrency
    /\ Cardinality(Executing) <= lim.activeCount
    /\ lim.queue # <<>> => lim.activeCount = lim.maxConcurrency
    /\ (\A u \in 1..Len(unit) : taskResult[u] # "threw") =>
         lim.activeCount = Cardinality(Executing)

\* C29: without cancellation, the k-th attempt of an item that fails with
\* an error to retry, k below retryAttempts, is followed by a wait of
\* retryBaseDelayMs * 2^(k-1) ms, 500 after the first and 1000 after the
\* second with the values index.ts gives; the failure of attempt number
\* retryAttempts and the failure that is not to be retried make the item
\* fail in that step, with no wait; an item waits for a retry with no
\* other delay than these.
C29_BackoffDoubles ==
  /\ [](\A p \in Ports : \A i \in 1..Len(port[p].item) :
         LET it == port[p].item[i]
         IN /\ port[p].opts.retryBaseDelayMs = 500 /\ port[p].opts.retryAttempts = 3
            /\ it.st = "backoff" =>
                 /\ it.attempt \in 1..(port[p].opts.retryAttempts - 1)
                 /\ it.delayMs = port[p].opts.retryBaseDelayMs * 2 ^ (it.attempt - 1)
                 /\ it.attempt = 1 => it.delayMs = 500
                 /\ it.attempt = 2 => it.delayMs = 1000
            /\ it.st \in {"failed", "ok", "fetch", "body"} => it.delayMs = 0)
  /\ [][\A p \in Ports : \A i \in 1..Len(port[p].item) :
         LET it == port[p].item[i]
             jt == port'[p].item[i]
             o == port[p].opts
         IN /\ (TransientFailure(p, i) /\ it.attempt < o.retryAttempts) =>
                 /\ jt.st = "backoff"
                 /\ jt.attempt = it.attempt
                 /\ jt.delayMs = o.retryBaseDelayMs * 2 ^ (it.attempt - 1)
            /\ (TransientFailure(p, i) /\ it.attempt >= o.retryAttempts) =>
                 jt.st = "failed" /\ jt.delayMs = 0
            /\ (FetchResponse(p, i, "missing") /\ ~port[p].signalAborted) =>
                 jt.st = "failed" /\ jt.delayMs = 0
            /\ (i <= Len(port'[p].item) /\ jt.st = "backoff" /\ it.st # "backoff"
                  /\ port[p].activeTask) =>
                 TransientFailure(p, i)]_vars

\* C29 witness: an item waits 1000 ms after its second attempt failed.
C29_Witness ==
  LET s == port["p1"]
  IN /\ Len(s.item) >= 1
     /\ s.item[1].st = "backoff"
     /\ s.item[1].attempt = 2
     /\ s.item[1].delayMs = 1000

\* C30 as stated: a cancellation that arrives while the run collects its
\* metadata makes getAllScreens return what it has collected, without an
\* error: the run goes on from line 93 with that list, under the aborted
\* signal.
C30_CancelReturnsCollected ==
  [][\A p \in Ports :
       (CancelDownload(p) /\ port[p].activeTask /\ port[p].pc = "collecting") =>
         port'[p] = afterResolve([port[p] EXCEPT !.signalAborted = TRUE],
                                 port[p].allScreens)]_vars

\* C30 amended: while the run collects, a page request is in flight and
\* the signal is not aborted, so a cancellation never arrives between two
\* requests; it rejects the request in flight, getAllScreens raises that
\* error and what was collected is dropped: the run ends in that step with
\* the cancelled event, with no list, no start event and no item.
C30_CancelRejectsCollection ==
  /\ [](\A p \in Ports : port[p].pc = "collecting" =>
          port[p].activeTask /\ ~port[p].signalAborted)
  /\ [][\A p \in Ports :
         (CancelDownload(p) /\ port[p].activeTask /\ port[p].pc = "collecting") =>
           LET s == port[p]
               t == port'[p]
           IN /\ t = runCatch([s EXCEPT !.signalAborted = TRUE], "AbortError")
              /\ Ended(t)
              /\ t.events = s.events \o <<StatusPayload("Download cancelled."),
                                          CancelledPayload>>
              /\ StartEvents(t) = {} /\ t.item = <<>> /\ t.total = 0
              /\ \A k \in 1..Len(t.events) : t.events[k].type \notin {"done", "error"}]_vars

\* C30 witness: a run was cancelled while it was asking for the page after
\* the first, with a screenshot collected.
C30_Witness ==
  LET s == port["p1"]
  IN /\ Ended(s)
     /\ ~s.opts.screens.given
     /\ s.allScreens >= 1
     /\ s.cursor # "0"
     /\ s.events = <<StatusPayload("Collecting gallery metadata..."),
                     StatusPayload("Download cancelled."), CancelledPayload>>

\* The list and the cursor the priority of the specification picks: the
\* direct field first, then the one under result, then the one under
\* result.data.
DirectFirstScreens(json) ==
  IF json.direct.present THEN json.direct
  ELSE IF json.result.present THEN json.result
  ELSE IF json.data.present THEN json.data
  ELSE List(0, "none")

DirectFirstCursor(json) ==
  IF json.directNext # "none" THEN json.directNext
  ELSE IF json.resultNext # "none" THEN json.resultNext
  ELSE json.dataNext

\* C31 as stated: of the lists a response carries the collector uses the
\* direct one before the one under result, and that one before the one
\* under result.data, and it picks the continuation cursor in the same
\* order: the collection goes on as it does on the response that holds
\* that list and that cursor only.
C31_DirectListFirst ==
  [][\A p \in Ports : \A json \in RawResponses :
       PageResponse(p, probed(json)) =>
         /\ candidateScreens(json) = DirectFirstScreens(json)
         /\ nextCursor(json) = DirectFirstCursor(json)
         /\ port'[p] = onPage(port[p], fetchPage(
               [ok |-> json.ok, success |-> json.success,
                screens |-> DirectFirstScreens(json).n,
                last |-> IF DirectFirstScreens(json).n = 0 THEN "0"
                         ELSE DirectFirstScreens(json).last,
                nextCursor |-> DirectFirstCursor(json)]))]_vars

\* The priority the collector has: the list and the cursor under result
\* before those under result.data, and those before the direct ones.
C31_ResultListFirst ==
  \A json \in RawResponses :
    /\ json.result.present => candidateScreens(json) = json.result
    /\ (~json.result.present /\ json.data.present) =>
         candidateScreens(json) = json.data
    /\ (~json.result.present /\ ~json.data.present /\ json.direct.present) =>
         candidateScreens(json) = json.direct
    /\ json.resultNext # "none" => nextCursor(json) = json.resultNext
    /\ (json.resultNext = "none" /\ json.dataNext # "none") =>
         nextCursor(json) = json.dataNext

\* The notice run() posts before it asks the listing for the metadata.
CollectingNotice == StatusPayload("Collecting gallery metadata...")

\* C32: a run whose start request brought its list never collects: it is
\* never waiting for a page, has posted no collecting notice and has
\* collected nothing; the start request (the one step that changes a
\* connection without a run) takes it in one step to the download of the
\* items of the list, after the start event with their number, or, if the
\* list is empty, to the zero-result done event.
C32_PrefetchedSkipsCollection ==
  /\ [](\A p \in Ports :
         LET s == port[p]
         IN s.opts.screens.given =>
              /\ s.pc # "collecting"
              /\ \A k \in 1..Len(s.events) : s.events[k] # CollectingNotice
              /\ s.allScreens = 0 /\ s.cursor = "0")
  /\ [][\A p \in Ports :
         LET t == port'[p]
             screens == t.opts.screens
         IN (~port[p].activeTask /\ t # port[p] /\ screens.given) =>
              IF screens.n = 0
                THEN /\ Ended(t)
                     /\ Last(t.events) = EmptyDonePayload
                     /\ t.item = <<>>
                ELSE /\ t.pc = "downloading"
                     /\ t.activeTask
                     /\ Len(t.item) = screens.n
                     /\ \E k \in StartEvents(t) : t.events[k].total = screens.n
                     /\ \E i \in 1..Len(t.item) : t.item[i].st = "fetch"]_vars

\* C32 witness: a run that was given two screenshots is downloading them.
C32_Witness ==
  LET s == port["p1"]
  IN /\ s.opts.screens = Screens(2)
     /\ s.pc = "downloading"
     /\ s.item[1].st = "fetch"
     /\ s.events[1] # CollectingNotice

\* ------------------------------------------------ delay() on its own
\* Largest number of delays made on one signal.
MaxDelays == 3

\* The lengths asked of delay: none, the throttle floor, the first backoff.
DelayMs == {0, DEFAULT_SEQUENTIAL_THROTTLE_MS, DEFAULT_RETRY_BASE_DELAY_MS}

\* downloadService.ts:337-365 -- a caller awaits delay(ms, signal).
Delay(ms) ==
  /\ Len(wait.delays) < MaxDelays
  /\ wait' = [wait EXCEPT !.delays = Append(@, delay(ms, wait.aborted))]
  /\ UNCHANGED <<limState, capArg, lim, unit, taskResult, port, past, cs>>

\* index.ts:69-74 -- controller.abort(): the signal is set and its 'abort'
\* event reaches the listeners registered so far (downloadService.ts:364).
\* A second abort() dispatches nothing.
Abort ==
  /\ ~wait.aborted
  /\ wait' = [aborted |-> TRUE,
              delays |-> [k \in 1..Len(wait.delays) |-> onAbort(wait.delays[k])]]
  /\ UNCHANGED <<limState, capArg, lim, unit, taskResult, port, past, cs>>

\* downloadService.ts:355-362 -- the timer of a pending delay fires.
DelayTimerFires(k) ==
  /\ k \in 1..Len(wait.delays)
  /\ wait.delays[k].st = "pending"
  /\ wait' = [wait EXCEPT !.delays[k] = onTimer(@)]
  /\ UNCHANGED <<limState, capArg, lim, unit, taskResult, port, past, cs>>

NextDelay ==
  \/ \E ms \in DelayMs : Delay(ms)
  \/ Abort
  \/ \E k \in 1..MaxDelays : DelayTimerFires(k)

SpecDelay == Init /\ [][NextDelay]_vars

C33_CancelDuringWaitRejects ==
  /\ [](\A k \in 1..Len(wait.delays) :
          (wait.aborted /\ ~wait.delays[k].begunAborted) =>
            wait.delays[k].st # "pending")
  /\ [][\A k \in 1..Len(wait.delays) :
          (wait.delays[k].st = "pending" /\ wait'.aborted
             /\ ~wait.delays[k].begunAborted) =>
            wait'.delays[k].st = "rejected"]_vars

\* C33, within a run: no backoff or throttle delay is pending under a set
\* signal (downloadWithRetry begins each delay right after a test of the
\* signal or an await the signal rejects), and a task that was waiting when
\* the signal is set ends aborted, never succeeded.
C33_NoDelayUnderCancelInRun ==
  /\ [](\A p \in Ports : \A i \in 1..Len(port[p].item) :
          port[p].item[i].st \in {"backoff", "throttle"} =>
            ~port[p].signalAborted)
  /\ [][\A p \in Ports : \A i \in 1..Len(port[p].item) :
          (port[p].item[i].st \in {"backoff", "throttle"}
             /\ ~port[p].signalAborted /\ port'[p].signalAborted) =>
            port'[p].item[i].st = "aborted"]_vars

\* ------------------------------------------------------------------- C34
\* C34: in every run started through the port, an effective concurrency of
\* 1 (by the sequential flag, a requested concurrency of 1 or the
\* large-gallery downgrade) comes with an effective throttle delay of at
\* least 150 ms, and the effective throttle delay is never above 5000 ms.
C34_ThrottleBounds ==
  \A p \in Ports :
    LET s == port[p]
    IN s.pc \in {"downloading", "packaging", "sink"} =>
         /\ s.concurrency = 1 => s.throttleDelayMs >= 150
         /\ s.throttleDelayMs >= 0
         /\ s.throttleDelayMs <= 5000
         /\ s.concurrency \in 1..10

\* C34 witness: a gallery of 800 screenshots asked with a concurrency above
\* 1 and a throttle of 100 ms is downloaded one at a time, 150 ms apart.
C34_Witness ==
  LET s == port["p1"]
  IN /\ s.pc = "downloading"
     /\ s.opts.screens = Screens(LARGE_GALLERY_THRESHOLD)
     /\ s.opts.concurrency > 1
     /\ s.opts.throttleDelayMs = 100
     /\ s.concurrency = 1
     /\ s.throttleDelayMs = 150

\* ------------------------------------------------------------------- C35
\* The items of the run that are between their first fetch and the return
\* of their task.
Fetching(s) == {i \in 1..Len(s.item) : s.item[i].st \in InFlight}

\* C35: a run whose effective concurrency is 1 fetches its items one at a
\* time in the order of the list: its limiter starts them in that order, at
\* most one is under way, an item has left the queue only if the item
\* before it has settled, and the progress events name the items in list
\* order; an item's first fetch is issued in the step in which the item
\* before it settles, which for a downloaded item is the end of its
\* throttle delay.
C35_SequentialInListOrder ==
  /\ [](\A p \in Ports :
          LET s == port[p]
              P == Progress(s)
          IN (s.concurrency = 1 /\ s.item # <<>>) =>
               /\ \A k \in 1..Len(s.throttler.startLog) : s.throttler.startLog[k] = k
               /\ Cardinality(Fetching(s)) <= 1
               /\ \A i \in 2..Len(s.item) :
                    s.item[i].st # "queued" => s.item[i - 1].st \in Settled
               /\ \A k \in 1..Len(P) : P[k].currentId = k)
  /\ [][\A p \in Ports :
          LET s == port[p]
              t == port'[p]
          IN (s.concurrency = 1 /\ s.activeTask /\ t.item # <<>>
                /\ Len(s.item) = Len(t.item)) =>
               \A i \in 2..Len(s.item) :
                 (s.item[i].fetches = 0 /\ t.item[i].fetches > 0) =>
                   /\ s.item[i - 1].st \in InFlight
                   /\ t.item[i - 1].st \in {"ok", "failed"}
                   /\ t.item[i - 1].st = "ok" =>
                        /\ s.item[i - 1].st = "throttle"
                        /\ s.item[i - 1].delayMs >= MIN_SEQUENTIAL_THROTTLE_MS]_vars

\* C35 witness: in a run of concurrency 1 the first item is downloaded, its
\* progress event posted, and the second item's fetch is under way.
C35_Witness ==
  LET s == port["p1"]
  IN /\ s.concurrency = 1
     /\ Len(s.item) = 2
     /\ s.item[1].st = "ok"
     /\ s.item[2].st = "fetch"
     /\ Len(Progress(s)) = 1
     /\ Progress(s)[1].currentId = 1

\* ------------------------------------- one connection, run after run
\* The requests of the runs that follow one another on the connection.
RestartMessages ==
  {m \in Messages : m.sequential /\ m.concurrency = Num(10)
                      /\ m.screens \in {NoScreens, Screens(1)}}

\* index.ts:76-80 -- a 'download' message arrives on port p, which has no
\* run; the connection remembers how the run before ended.
StartAfter(p, m) ==
  /\ ~port[p].activeTask
  /\ port' = [port EXCEPT ![p] = startDownload(port[p], m)]
  /\ past' = [past EXCEPT ![p] =
       [terminal |-> IF port[p].events = <<>> THEN "none"
                     ELSE port[p].events[Len(port[p].events)].type,
        idleCancel |-> past[p].pending,
        pending |-> FALSE]]
  /\ UNCHANGED <<limState, capArg, lim, unit, taskResult, wait, cs>>

\* index.ts:81-83 and 69-72 -- a 'cancel' message arrives on port p, which
\* has no run.
CancelWhileIdle(p) ==
  /\ ~port[p].activeTask
  /\ port' = [port EXCEPT ![p] = cancelDownload(port[p])]
  /\ past' = [past EXCEPT ![p].pending = TRUE]
  /\ UNCHANGED <<limState, capArg, lim, unit, taskResult, wait, cs>>

\* index.ts:81-83 -- a 'cancel' message arrives on port p during its run.
CancelRun(p) ==
  /\ port[p].activeTask
  /\ CancelDownload(p)

NextRestart ==
  \E p \in {"p1"} :
    \/ \E m \in RestartMessages : StartAfter(p, m)
    \/ CancelWhileIdle(p)
    \/ CancelRun(p)
    \/ \E r \in PageResponses : PageResponse(p, r)
    \/ \E i \in 1..MaxItems : \E o \in FetchOutcomes : FetchResponse(p, i, o)
    \/ \E i \in 1..MaxItems : \E ok \in BOOLEAN : BodyRead(p, i, ok)
    \/ \E i \in 1..MaxItems : TimerFires(p, i)
    \/ ZipGenerated(p)
    \/ \E ok \in BOOLEAN : SinkReturns(p, ok)

SpecRestart == Init /\ [][NextRestart]_vars

\* ------------------------------------------------------------------- C36
\* What startDownload makes of a request with these options on a
\* connection that has had no run.
FirstRun(opts) ==
  run([IdlePort EXCEPT !.controller = "set", !.activeTask = TRUE, !.opts = opts])

\* C36: a start request on a connection whose run is over is accepted and
\* its run is the one the same request starts on a new connection, with a
\* signal that is not set and counters at zero, however the run before
\* ended; a cancel that arrives while no run is active changes nothing; and
\* a run posts a cancelled event only if its own signal was set.
C36_LaterRunIsFresh ==
  /\ [][\A p \in Ports :
          LET s == port[p]
              t == port'[p]
          IN /\ (~s.activeTask /\ t # s) =>
                  /\ t = FirstRun(t.opts)
                  /\ t.replies = <<>>
                  /\ ~t.signalAborted
                  /\ t.processed = 0 /\ t.succeeded = 0 /\ t.failed = 0
                  /\ t.zip = {} /\ t.generated = 0 /\ t.sinkCalls = 0
                  /\ t.activeTask => t.controller = "set"
             /\ (~s.activeTask /\ past'[p].pending) => t = s]_vars
  /\ [](\A p \in Ports :
          LET s == port[p]
          IN /\ CancelledEvents(s) # {} => s.signalAborted
             /\ s.activeTask => s.controller = "set"
             /\ ~s.activeTask => s.controller = "null")

\* C36 witness: after a run that was cancelled and a cancel that arrived
\* while the connection was idle, the next run has downloaded its item and
\* ended with done.
C36_Witness ==
  LET s == port["p1"]
  IN /\ past["p1"].terminal = "cancelled"
     /\ past["p1"].idleCancel
     /\ Ended(s)
     /\ Last(s.events).type = "done"
     /\ s.succeeded = 1
     /\ ~s.signalAborted

\* ------------------------------------------- the content script alone
\* Largest number of download attempts of the content script.
MaxAttempts == 2

\* The types of the messages of the worker.
MessageTypes == {"start", "progress", "status", "log", "done", "error", "cancelled"}

\* part_004:390-396 -- the user asks for a download (the button of the
\* panel or the toggle of the page).
DownloadRequested ==
  /\ IF isBusy(cs) THEN cs.refused < MaxRefused ELSE Len(cs.attempt) < MaxAttempts
  /\ cs' = onDownloadRequested(cs)
  /\ UNCHANGED <<limState, capArg, lim, unit, taskResult, port, wait, past>>

\* lightshotClient.ts:82-98 -- the listing answers the page request of
\* attempt k.
MetadataPage(k, r) ==
  /\ k \in 1..Len(cs.attempt)
  /\ cs.attempt[k].pc = "collecting"
  /\ cs' = onMetadataPage(cs, k, fetchPage(r))
  /\ UNCHANGED <<limState, capArg, lim, unit, taskResult, port, wait, past>>

\* part_004:540-555 -- the user presses the cancel button while an attempt
\* is under way.
Cancel ==
  /\ isBusy(cs)
  /\ cs' = onCancel(cs)
  /\ UNCHANGED <<limState, capArg, lim, unit, taskResult, port, wait, past>>

\* part_004:463-518 -- a message of the worker arrives on the port of
\* attempt k, whose listener is attached.
PortMessage(k, type) ==
  /\ k \in 1..Len(cs.attempt)
  /\ cs.attempt[k].pc = "connected"
  /\ cs' = handleMessage(cs, k, type)
  /\ UNCHANGED <<limState, capArg, lim, unit, taskResult, port, wait, past>>

\* part_004:521-527 -- the worker's end of the port of attempt k goes away.
PortDisconnected(k) ==
  /\ k \in 1..Len(cs.attempt)
  /\ cs.attempt[k].pc = "connected"
  /\ cs' = onPortDisconnect(cs, k)
  /\ UNCHANGED <<limState, capArg, lim, unit, taskResult, port, wait, past>>

NextContent ==
  \/ DownloadRequested
  \/ \E k \in 1..MaxAttempts : \E r \in PageResponses : MetadataPage(k, r)
  \/ Cancel
  \/ \E k \in 1..MaxAttempts : \E type \in MessageTypes : PortMessage(k, type)
  \/ \E k \in 1..MaxAttempts : PortDisconnected(k)

SpecContent == Init /\ [][NextContent]_vars

\* ------------------------------------------------------------------- C37
\* The attempts of the content script that are under way: collecting the
\* metadata, or downloading over their port.
InProgress(c) ==
  {k \in 1..Len(c.attempt) : c.attempt[k].pc \in {"collecting", "connected"}}

\* C37: an attempt the user cancelled during its metadata collection has
\* posted no download request and never posts one; at most one attempt is
\* collecting or downloading at any time, and while one is, a request for
\* a download is refused: it starts no attempt.
C37_CancelledCollectionSendsNothing ==
  /\ [](/\ \A k \in 1..Len(cs.attempt) :
             cs.attempt[k].aborted =>
               /\ cs.attempt[k].posted = 0
               /\ cs.attempt[k].pc = "returned"
        /\ Cardinality(InProgress(cs)) <= 1
        /\ \A k \in 1..Len(cs.attempt) : cs.attempt[k].posted <= 1
        /\ InProgress(cs) # {} <=> isBusy(cs))
  /\ [][InProgress(cs) # {} => Len(cs'.attempt) = Len(cs.attempt)]_vars

\* C37 witness: the first attempt was cancelled while it was collecting,
\* after a page had arrived, and has posted nothing; the second has
\* collected its list and posted its download request.
C37_Witness ==
  /\ Len(cs.attempt) = 2
  /\ cs.attempt[1].aborted
  /\ cs.attempt[1].allScreens > 0
  /\ cs.attempt[1].posted = 0
  /\ cs.attempt[2].pc = "connected"
  /\ cs.attempt[2].posted = 1
  /\ cs.refused = 1
====
